---- MODULE Spec2Model ----
(***************************************************************************)
(* Amenity enrichment of woladen.de (scripts/build_data.py): the remote    *)
(* (Overpass) backend with its on-disk cache, query budget and HTTP retry  *)
(* policy, the local extract (osm-pbf) backend with its coarse and fine    *)
(* grids, and the choice between the two.  Time is counted in ticks,       *)
(* TicksPerDay ticks to a day.  Coordinates of the remote backend are      *)
(* integers in units of 1e-6 degree; those of the local backend are        *)
(* latitudes on one meridian in units of 1/UnitsPerDegree degree.          *)
(***************************************************************************)
EXTENDS Integers, Sequences, FiniteSets, TLC

VARIABLES
    pc,              \* position of the run: "init", "loop", "done", "aborted", "interrupted"
    disk,            \* content of the cache file (AMENITY_CACHE_PATH)
    disk_loaded,     \* content of the cache file when the run loaded it
    radius_m,        \* run parameter --radius-m
    query_budget,    \* run parameter --query-budget
    refresh_days,    \* run parameter --refresh-days
    force_refresh,   \* run parameter --force-refresh
    overpass_delay_ms, \* run parameter --overpass-delay-ms
    now,             \* utc_now() at the start of the run, in ticks
    cache,           \* the dict returned by load_amenity_cache, later rewritten
    entries,         \* cache.get("entries", {}), mutated by the station loop
    queries_used, cache_hits, cache_misses, deferred, lookup_errors,
    rows,            \* per processed station: its row of df (coordinate, key and result columns)
    http_requests,   \* number of session.request calls of the run
    last,            \* what the latest loop iteration did (requests, sleeps, branch)
    writes,          \* number of cache_path.write_text calls
    amenity_backend, \* run parameter --amenity-backend: "auto", "overpass", "osm-pbf"
    osm_pbf,         \* the extract file at --osm-pbf-path: "missing", "empty", "present"
    osmium_available, \* whether the package osmium can be imported
    download_osm_pbf, \* run parameter --download-osm-pbf
    backend,         \* what resolve_amenity_backend returned, "" before the call
    df,              \* the stations handed to the local backend
    extract,         \* the objects the extract has delivered to the collector so far
    station_cells,   \* the coarse cells build_coarse_station_cells returned
    points,          \* collector.points
    payload,         \* the element list handed to lookup_amenities on its own
    lookup_result,   \* what lookup_amenities returned for payload
    responses,       \* what the requests of the latest request_with_retries call met
    http_result,     \* how that call ended
    calls,           \* number of request_with_retries calls made on their own
    example_list,    \* the list handed to limit_amenity_examples on its own
    limited,         \* what limit_amenity_examples returned for example_list
    previous         \* what the preceding run of the remote backend left behind

enrichvars == <<amenity_backend, osm_pbf, osmium_available, download_osm_pbf, backend>>
localvars == <<df, extract, station_cells, points>>
retryvars == <<responses, http_result, calls>>
limitvars == <<example_list, limited>>
lookupvars == <<payload, lookup_result, retryvars, limitvars>>

vars == <<pc, disk, disk_loaded, radius_m, query_budget, refresh_days, force_refresh,
          overpass_delay_ms, now, cache, entries, queries_used, cache_hits,
          cache_misses, deferred, lookup_errors, rows, http_requests, last, writes,
          enrichvars, localvars, lookupvars, previous>>

(***************************************************************************)
(* Bounds of the model                                                     *)
(***************************************************************************)
MaxStations == 2
MaxBudget == 2

(***************************************************************************)
(* Program constants                                                       *)
(***************************************************************************)
AMENITY_SCHEMA_VERSION == 1
AMENITY_EXAMPLES_PER_STATION == 12
MaxAttempts == 4
\* delay = 1.2 s and its factor 1.8, in units of 0.1 ms and tenths
InitialDelay == 12000
DelayFactorTenths == 18
\* sort rank of an example without a numeric distance_m
MissingDistanceRank == 10000000
\* int(cache_entry.get("radius_m", -1))
DefaultEntryRadius == -1
\* datetime(1970, 1, 1) as a tick
Epoch == 0
TicksPerDay == 2
\* the clock when the run starts, as a tick
StartTime == 4

AMENITY_RULES ==
    << [key |-> "restaurant",  selectors |-> << <<"amenity", "restaurant">> >>],
       [key |-> "cafe",        selectors |-> << <<"amenity", "cafe">> >>],
       [key |-> "fast_food",   selectors |-> << <<"amenity", "fast_food">> >>],
       [key |-> "toilets",     selectors |-> << <<"amenity", "toilets">> >>],
       [key |-> "supermarket", selectors |-> << <<"shop", "supermarket">> >>],
       [key |-> "bakery",      selectors |-> << <<"shop", "bakery">> >>],
       [key |-> "convenience", selectors |-> << <<"shop", "convenience">> >>],
       [key |-> "pharmacy",    selectors |-> << <<"amenity", "pharmacy">>, <<"shop", "chemist">> >>],
       [key |-> "hotel",       selectors |-> << <<"tourism", "hotel">> >>],
       [key |-> "museum",      selectors |-> << <<"tourism", "museum">> >>],
       [key |-> "playground",  selectors |-> << <<"leisure", "playground">> >>],
       [key |-> "park",        selectors |-> << <<"leisure", "park">> >>],
       [key |-> "ice_cream",   selectors |-> << <<"amenity", "ice_cream">> >> ] >>

\* amenity_columns, named by their rule key
amenity_columns == { AMENITY_RULES[i].key : i \in 1..Len(AMENITY_RULES) }

ZeroCounts == [col \in amenity_columns |-> 0]

(***************************************************************************)
(* JSON values of the cache file, as far as the code distinguishes them    *)
(***************************************************************************)
\* a member that is absent, an integer, or some other JSON value
Absent == [t |-> "absent", v |-> 0]
IntVal(n) == [t |-> "int", v |-> n]
OtherVal == [t |-> "other", v |-> 0]

\* a timestamp that datetime.fromisoformat rejects (or an absent checked_at)
BadTimestamp == -1

\* the value of entries[key]: a falsy value (null, {}, 0, ""), a truthy value
\* that is no object, or an object with the members the loop reads
FalsyEntry ==
    [kind |-> "falsy", checked_at |-> BadTimestamp, radius_m |-> Absent,
     counts |-> Absent, examples |-> <<>>]
ScalarEntry ==
    [kind |-> "scalar", checked_at |-> BadTimestamp, radius_m |-> Absent,
     counts |-> Absent, examples |-> <<>>]
ObjectEntry(checked, radius, counts, examples) ==
    [kind |-> "object", checked_at |-> checked, radius_m |-> radius,
     counts |-> counts, examples |-> examples]
CountsVal(c) == [t |-> "object", v |-> c]

\* the entries member: an object (a map from keys to entry values), or not
EmptyMap == [k \in {} |-> FalsyEntry]
EntriesObject(m) == [kind |-> "object", map |-> m]
EntriesOther == [kind |-> "other", map |-> EmptyMap]
NoEntries == EntriesObject(EmptyMap)

\* the meta member
MetaObject(version, radius, updated) ==
    [kind |-> "object", schema_version |-> version, radius_m |-> radius,
     updated_at |-> updated]
MetaOther == [kind |-> "other", schema_version |-> Absent, radius_m |-> Absent,
              updated_at |-> Absent]
EmptyMeta == MetaObject(Absent, Absent, Absent)

\* the file: missing, not JSON, a JSON value that is no object, cut short by
\* an interrupted write, or an object
NoFile == [kind |-> "nofile"]
NotJsonFile == [kind |-> "notjson"]
NonObjectFile == [kind |-> "nonobject"]
TruncatedFile == [kind |-> "truncated"]
ObjectFile(hasMeta, meta, hasEntries, ents) ==
    [kind |-> "object", has_meta |-> hasMeta, meta |-> meta,
     has_entries |-> hasEntries, entries |-> ents]

\* the dict the function returns for a missing, unreadable or outdated file
FreshCache ==
    [meta |-> MetaObject(IntVal(AMENITY_SCHEMA_VERSION), Absent, Absent),
     entries |-> NoEntries]

\* a variant that takes a file of any schema version
SchemaMismatchIgnored(meta) == FALSE

\* line 653: data["meta"].get("schema_version") != AMENITY_SCHEMA_VERSION
SchemaMismatch(meta) == meta.schema_version # IntVal(AMENITY_SCHEMA_VERSION)

\* load_amenity_cache(path): the dict, or the exception that leaves the function
load_amenity_cache(file) ==
    IF file.kind = "nofile" THEN [raised |-> FALSE, data |-> FreshCache]
    ELSE IF file.kind \in {"notjson", "truncated"}
        THEN [raised |-> FALSE, data |-> FreshCache]    \* json.JSONDecodeError
    ELSE IF file.kind = "nonobject"
        THEN [raised |-> FALSE, data |-> FreshCache]    \* ValueError
    ELSE LET meta == IF file.has_meta THEN file.meta ELSE EmptyMeta
             ents == IF file.has_entries THEN file.entries ELSE NoEntries
         IN  IF meta.kind # "object"
                 THEN [raised |-> TRUE, data |-> FreshCache]   \* AttributeError on .get
             ELSE IF SchemaMismatch(meta)
                 THEN [raised |-> FALSE, data |-> FreshCache]
             ELSE [raised |-> FALSE, data |-> [meta |-> meta, entries |-> ents]]

(***************************************************************************)
(* request_with_retries                                                    *)
(***************************************************************************)
\* what session.request does on one attempt: an HTTP status code, or
\* NetworkError when it raises a requests.RequestException
NetworkError == 0
RetryableStatus == {429, 500, 502, 503, 504}

\* a variant that raises for client errors only
RaisesForClientError(status) == status >= 400 /\ status < 500

\* response.raise_for_status() raises HTTPError (a RequestException)
RaisesForStatus(status) == status >= 400 /\ status < 600

\* a variant that takes only 2xx for success
Succeeds2xx(status) == status < 300

\* line 286: the status test that returns the response
Succeeds(status) == status < 400

\* a variant without backoff
NextDelaySame(delay) == delay

\* lines 290 and 297: delay *= 1.8
NextDelay(delay) == (delay * DelayFactorTenths) \div 10

\* the for loop from `attempt` on; resps[i] is what the i-th request meets.
\* Result: how the call ends, the requests sent, the sleeps slept (0.1 ms).
RECURSIVE RetryLoop(_, _, _, _)
RetryLoop(resps, attempt, delay, sleeps) ==
    IF attempt > MaxAttempts
        THEN [outcome |-> "fallthrough", requests |-> attempt - 1, sleeps |-> sleeps]
    ELSE LET status == resps[attempt]
             \* the except clause
             handler ==
                 IF attempt >= MaxAttempts
                     THEN [outcome |-> "raise", requests |-> attempt, sleeps |-> sleeps]
                     ELSE RetryLoop(resps, attempt + 1, NextDelay(delay), Append(sleeps, delay))
         IN  IF status = NetworkError THEN handler
             ELSE IF Succeeds(status)
                 THEN [outcome |-> "return", requests |-> attempt, sleeps |-> sleeps]
             ELSE IF status \in RetryableStatus /\ attempt < MaxAttempts
                 THEN RetryLoop(resps, attempt + 1, NextDelay(delay), Append(sleeps, delay))
             ELSE IF RaisesForStatus(status) THEN handler
             ELSE RetryLoop(resps, attempt + 1, delay, sleeps)

request_with_retries(resps) == RetryLoop(resps, 1, InitialDelay, <<>>)

(***************************************************************************)
(* classify_tags, limit_amenity_examples, lookup_amenities                 *)
(***************************************************************************)
\* tags is a set of <<key, value>> pairs, one per key
RuleMatches(rule, tags) ==
    \E i \in 1..Len(rule.selectors) : rule.selectors[i] \in tags

\* the matched rule keys, in rule order
RECURSIVE ClassifyFrom(_, _)
ClassifyFrom(tags, i) ==
    IF i > Len(AMENITY_RULES) THEN <<>>
    ELSE IF RuleMatches(AMENITY_RULES[i], tags)
        THEN <<AMENITY_RULES[i].key>> \o ClassifyFrom(tags, i + 1)
        ELSE ClassifyFrom(tags, i + 1)

classify_tags(tags) == ClassifyFrom(tags, 1)

\* the order of Python's str comparison on the category names
CategoryOrder ==
    << "bakery", "cafe", "convenience", "fast_food", "hotel", "ice_cream", "museum",
       "park", "pharmacy", "playground", "restaurant", "supermarket", "toilets" >>
CategoryRank(c) == CHOOSE i \in 1..Len(CategoryOrder) : CategoryOrder[i] = c

\* names of the model, name.lower() and the order of the lower-cased names;
\* "" is the absent name
NameOrder == << "", "aldi", "cafe x" >>
Lower(name) ==
    CASE name = "Aldi" -> "aldi"
      [] name = "ALDI" -> "aldi"
      [] name = "Cafe X" -> "cafe x"
      [] OTHER -> name
NameRank(name) == CHOOSE i \in 1..Len(NameOrder) : NameOrder[i] = Lower(name)

\* an example: distance_m is NoDistance when the member is absent
NoDistance == -1
sort_key(item) ==
    << IF item.distance_m = NoDistance THEN MissingDistanceRank ELSE item.distance_m,
       CategoryRank(item.category), NameRank(item.name) >>

KeyLess(a, b) ==
    \/ a[1] < b[1]
    \/ a[1] = b[1] /\ a[2] < b[2]
    \/ a[1] = b[1] /\ a[2] = b[2] /\ a[3] < b[3]

\* a variant that inserts before the items of equal key
RECURSIVE InsertBeforeEqual(_, _)
InsertBeforeEqual(ranked, item) ==
    IF ranked = <<>> THEN <<item>>
    ELSE IF ~KeyLess(sort_key(ranked[Len(ranked)]), sort_key(item))
        THEN Append(InsertBeforeEqual(SubSeq(ranked, 1, Len(ranked) - 1), item), ranked[Len(ranked)])
        ELSE Append(ranked, item)

\* sorted(examples, key=sort_key): stable, by insertion after the last item
\* whose key is not greater
RECURSIVE InsertSorted(_, _)
InsertSorted(ranked, item) ==
    IF ranked = <<>> THEN <<item>>
    ELSE IF KeyLess(sort_key(item), sort_key(ranked[Len(ranked)]))
        THEN Append(InsertSorted(SubSeq(ranked, 1, Len(ranked) - 1), item), ranked[Len(ranked)])
        ELSE Append(ranked, item)

RECURSIVE SortExamples(_)
SortExamples(examples) ==
    IF examples = <<>> THEN <<>>
    ELSE InsertSorted(SortExamples(SubSeq(examples, 1, Len(examples) - 1)),
                      examples[Len(examples)])

\* a variant that sorts and keeps every item
sort_amenity_examples(examples) == SortExamples(examples)

limit_amenity_examples(examples) ==
    LET ranked == SortExamples(examples)
    IN  IF Len(ranked) <= AMENITY_EXAMPLES_PER_STATION
            THEN ranked
            ELSE SubSeq(ranked, 1, AMENITY_EXAMPLES_PER_STATION)

\* build_amenity_example: int(round(max(0.0, distance_m))) of a distance given
\* in whole metres
build_amenity_example(category, name, distance) ==
    [isdict |-> TRUE, category |-> category, name |-> name,
     distance_m |-> IF distance = NoDistance THEN NoDistance
                    ELSE IF distance < 0 THEN 0 ELSE distance]

\* an element of the response: a JSON object or not; type; id (an integer or
\* not); tags (an object or not); name; the haversine distance of its own
\* coordinate or centre to the station, NoDistance when it has neither
Element(type, id, tags, name, distance) ==
    [isdict |-> TRUE, type |-> type, id |-> IntVal(id), hastags |-> TRUE,
     tags |-> tags, name |-> name, distance |-> distance]

UnseenAlways(marker, seen) == TRUE

\* the `if marker in seen: continue` test
Unseen(marker, seen) == marker \notin seen

\* the loop over payload["elements"] from item i on
RECURSIVE ElementLoop(_, _, _, _, _)
ElementLoop(items, i, counts, seen, examples) ==
    IF i > Len(items) THEN [counts |-> counts, examples |-> examples]
    ELSE LET element == items[i]
         IN  IF ~element.isdict THEN ElementLoop(items, i + 1, counts, seen, examples)
             ELSE IF element.type \notin {"node", "way", "relation"}
                 THEN ElementLoop(items, i + 1, counts, seen, examples)
             ELSE IF element.id.t # "int" \/ ~element.hastags
                 THEN ElementLoop(items, i + 1, counts, seen, examples)
             ELSE LET categories == classify_tags(element.tags)
                      fresh == { j \in 1..Len(categories) :
                                   Unseen(<<element.type, element.id.v, categories[j]>>, seen) }
                      hit(cat) == \E j \in fresh : categories[j] = cat
                      newExamples ==
                          [j \in 1..Len(categories) |->
                              IF j \in fresh
                                  THEN <<build_amenity_example(categories[j], element.name,
                                                               element.distance)>>
                                  ELSE <<>>]
                      RECURSIVE Flatten(_)
                      Flatten(j) == IF j > Len(categories) THEN <<>>
                                    ELSE newExamples[j] \o Flatten(j + 1)
                  IN  ElementLoop(items, i + 1,
                          [c \in amenity_columns |-> IF hit(c) THEN counts[c] + 1 ELSE counts[c]],
                          seen \cup { <<element.type, element.id.v, categories[j]>> :
                                        j \in 1..Len(categories) },
                          examples \o Flatten(1))

\* the body of a response: not JSON, a JSON value that is no object, or an
\* object whose "elements" member is absent, a list, another iterable (a
\* string, an object) or not iterable
BodyNotJson == [kind |-> "notjson", elements |-> "absent", items |-> <<>>]
BodyNonObject == [kind |-> "nonobject", elements |-> "absent", items |-> <<>>]
BodyObject(elements, items) == [kind |-> "object", elements |-> elements, items |-> items]

\* no response was received
NoBody == [kind |-> "none", elements |-> "absent", items |-> <<>>]

\* lookup_amenities after the HTTP exchange `http` (of request_with_retries)
\* and, when it returned a response, that response's body
lookup_amenities(http, body) ==
    IF http.outcome # "return" THEN [raised |-> TRUE, counts |-> ZeroCounts, examples |-> <<>>]
    ELSE IF body.kind # "object"          \* response.json() or payload.get raises
        THEN [raised |-> TRUE, counts |-> ZeroCounts, examples |-> <<>>]
    ELSE IF body.elements = "noniterable"  \* TypeError of the for statement
        THEN [raised |-> TRUE, counts |-> ZeroCounts, examples |-> <<>>]
    ELSE LET items == IF body.elements = "list" THEN body.items ELSE <<>>
             done == ElementLoop(items, 1, ZeroCounts, {}, <<>>)
         IN  [raised |-> FALSE, counts |-> done.counts,
              examples |-> limit_amenity_examples(done.examples)]

\* decode_amenity_examples(raw) of a list: its items that are objects
decode_amenity_examples(raw) == SelectSeq(raw, LAMBDA item : item.isdict)

(***************************************************************************)
(* enrich_with_amenities_overpass                                          *)
(***************************************************************************)
\* f"{x:.5f}" of a coordinate given in 1e-6 degree, in units of 1e-5 degree
Round5(x) == (x + 5) \div 10

\* key = f"{row['lat']:.5f},{row['lon']:.5f}"
CacheKey(row) == <<Round5(row.lat), Round5(row.lon)>>

\* stale_before = now - timedelta(days=refresh_days)
stale_before == now - refresh_days * TicksPerDay

\* entries.get(key): None (falsy) for a key the map lacks
EntriesGet(ents, key) ==
    IF key \in DOMAIN ents.map THEN ents.map[key] ELSE FalsyEntry

\* datetime.fromisoformat(checked_raw), 1970-01-01 on any exception
ParseCheckedAt(entry) ==
    IF entry.checked_at = BadTimestamp THEN Epoch ELSE entry.checked_at

\* int(cache_entry.get("radius_m", -1)) raises for a value that is no number
EntryRadiusRaises(entry) == entry.radius_m.t = "other"
EntryRadius(entry) ==
    IF entry.radius_m.t = "absent" THEN DefaultEntryRadius ELSE entry.radius_m.v

IsFreshStrict(checked_at) == checked_at > stale_before

\* the `checked_at >= stale_before` comparison
IsFresh(checked_at) == checked_at >= stale_before

\* lines 1198-1213: use_cache, or the exception that leaves the loop
CacheProbe(ents, key) ==
    IF ents.kind # "object" THEN [raised |-> TRUE, use_cache |-> FALSE]   \* entries.get
    ELSE LET cache_entry == EntriesGet(ents, key)
         IN  IF cache_entry.kind # "falsy" /\ ~force_refresh
                 THEN IF cache_entry.kind # "object"
                          THEN [raised |-> TRUE, use_cache |-> FALSE]     \* cache_entry.get
                      ELSE IF EntryRadiusRaises(cache_entry)
                          THEN [raised |-> TRUE, use_cache |-> FALSE]     \* int(...)
                      ELSE [raised |-> FALSE,
                            use_cache |-> /\ EntryRadius(cache_entry) = radius_m
                                          /\ IsFresh(ParseCheckedAt(cache_entry))]
                 ELSE [raised |-> FALSE, use_cache |-> FALSE]

\* the entry a live lookup attempt stores under the station's key
NewEntry(counts, examples) ==
    ObjectEntry(now, IntVal(radius_m), CountsVal(counts), examples)

MapPutAlone(m, key, value) == [k \in {key} |-> value]

\* entries[key] = value: the other keys keep their values
MapPut(m, key, value) ==
    [k \in DOMAIN m \cup {key} |-> IF k = key THEN value ELSE m[k]]

\* a variant whose exchange is carried out twice
LiveLookupRepeated(resps, body) ==
    LET http == request_with_retries(resps)
    IN  [resps |-> resps, http |-> [http EXCEPT !.requests = 2 * @],
         body |-> IF http.outcome = "return" THEN body ELSE NoBody,
         looked |-> lookup_amenities(http, body)]

\* the HTTP exchange and the result of lookup_amenities when its requests meet
\* `resps` and the response it gets has the body `body`
LiveLookup(resps, body) ==
    LET http == request_with_retries(resps)
    IN  [resps |-> resps, http |-> http,
         body |-> IF http.outcome = "return" THEN body ELSE NoBody,
         looked |-> lookup_amenities(http, body)]

\* an iteration that changes nothing yet
NoEffect ==
    [raised |-> FALSE, source |-> "", counts |-> ZeroCounts, examples |-> <<>>,
     entries |-> entries, queries |-> 0, hits |-> 0, misses |-> 0,
     deferred |-> 0, errors |-> 0, requests |-> 0, resps |-> <<>>, sleeps |-> <<>>,
     body |-> NoBody, delay_sleep |-> 0]

\* a variant that serves the entry without counting the hit
CacheHitStepUncounted(cache_entry) ==
    IF cache_entry.counts.t = "other"
        THEN [NoEffect EXCEPT !.raised = TRUE]
        ELSE [NoEffect EXCEPT
                 !.source = "cache",
                 !.counts = IF cache_entry.counts.t = "absent"
                                THEN ZeroCounts ELSE cache_entry.counts.v,
                 !.examples = decode_amenity_examples(cache_entry.examples)]

\* lines 1215-1219 and the counts.get of lines 1255-1259: serve the entry
CacheHitStep(cache_entry) ==
    IF cache_entry.counts.t = "other"      \* counts.get(col, 0) raises
        THEN [NoEffect EXCEPT !.raised = TRUE]
        ELSE [NoEffect EXCEPT
                 !.source = "cache",
                 !.counts = IF cache_entry.counts.t = "absent"
                                THEN ZeroCounts ELSE cache_entry.counts.v,
                 !.examples = decode_amenity_examples(cache_entry.examples),
                 !.hits = 1]

BudgetExhaustedLate == queries_used > query_budget

\* line 1221: the budget test
BudgetExhausted == queries_used >= query_budget

\* a variant that gives the unit of the budget back
DeferredStepRefunding ==
    [NoEffect EXCEPT !.source = "deferred", !.misses = 1, !.deferred = 1, !.queries = -1]

\* a variant that empties the in-memory map
DeferredStepEvicting ==
    [NoEffect EXCEPT !.source = "deferred", !.misses = 1, !.deferred = 1,
                     !.entries = NoEntries]

DeferredStepUncounted ==
    [NoEffect EXCEPT !.source = "deferred", !.misses = 1]

\* lines 1222-1226: no lookup for this station
DeferredStep ==
    [NoEffect EXCEPT !.source = "deferred", !.misses = 1, !.deferred = 1]

LookupResultUncounted(looked) ==
    IF looked.raised
        THEN [source |-> "error", counts |-> ZeroCounts, examples |-> <<>>, errors |-> 0]
        ELSE [source |-> "live", counts |-> looked.counts, examples |-> looked.examples,
              errors |-> 0]

\* lines 1228-1240: the try statement around lookup_amenities
LookupResult(looked) ==
    IF looked.raised
        THEN [source |-> "error", counts |-> ZeroCounts, examples |-> <<>>, errors |-> 1]
        ELSE [source |-> "live", counts |-> looked.counts, examples |-> looked.examples,
              errors |-> 0]

QueriesConsumedOnSuccess(result) == IF result.source = "error" THEN 0 ELSE 1

\* line 1242: queries_used += 1, whatever the lookup did
QueriesConsumed(result) == 1

EntriesAfterLookupDropped(ents, key, result) == ents

\* lines 1245-1250: entries[key] = {...}, whatever the lookup did
EntriesAfterLookup(ents, key, result) ==
    EntriesObject(MapPut(ents.map, key, NewEntry(result.counts, result.examples)))

\* a variant that divides by 1000 twice
InterQueryDelayScaled == overpass_delay_ms \div 1000

\* lines 1252-1253: the sleep after a lookup attempt, in ms
InterQueryDelay == IF overpass_delay_ms > 0 THEN overpass_delay_ms ELSE 0

\* lines 1227-1253: a live lookup that goes as `live`
LiveStep(key, live) ==
    LET result == LookupResult(live.looked)
    IN  [NoEffect EXCEPT
            !.source = result.source,
            !.counts = result.counts,
            !.examples = result.examples,
            !.errors = result.errors,
            !.queries = QueriesConsumed(result),
            !.misses = 1,
            !.entries = EntriesAfterLookup(entries, key, result),
            !.requests = live.http.requests,
            !.resps = live.resps,
            !.sleeps = live.http.sleeps,
            !.body = live.body,
            !.delay_sleep = InterQueryDelay]

\* one iteration of the station loop for `row`, where a live lookup would go
\* as `live` (of LiveLookup)
StationStep(row, live) ==
    LET key == CacheKey(row)
        probe == CacheProbe(entries, key)
    IN  IF probe.raised THEN [NoEffect EXCEPT !.raised = TRUE]
        ELSE IF probe.use_cache THEN CacheHitStep(EntriesGet(entries, key))
        ELSE IF BudgetExhausted THEN DeferredStep
        ELSE LiveStep(key, live)

CountsPresent(counts, cols) == Cardinality({ col \in cols : counts[col] > 0 })

\* sum(int(counts.get(col, 0)) for col in amenity_columns)
RECURSIVE SumCounts(_, _)
SumCounts(counts, cols) ==
    IF cols = {} THEN 0
    ELSE LET col == CHOOSE c \in cols : TRUE
         IN  counts[col] + SumCounts(counts, cols \ {col})

\* a variant that labels a failed lookup like a successful one
ResultRowErrorAsLive(row, step) ==
    [lat |-> row.lat, lon |-> row.lon, key |-> CacheKey(row),
     counts |-> step.counts,
     amenities_total |-> SumCounts(step.counts, amenity_columns),
     amenities_source |-> IF step.source = "error" THEN "live" ELSE step.source,
     amenity_examples |-> step.examples]

\* the columns the loop writes into the station's row of df
ResultRow(row, step) ==
    [lat |-> row.lat, lon |-> row.lon, key |-> CacheKey(row),
     counts |-> step.counts,
     amenities_total |-> SumCounts(step.counts, amenity_columns),
     amenities_source |-> step.source,
     amenity_examples |-> step.examples]

(***************************************************************************)
(* Inputs of the model                                                     *)
(***************************************************************************)
\* station coordinates: the first two share their 5-decimal key
StationRows ==
    { [lat |-> 52520001, lon |-> 13405000],
      [lat |-> 52520004, lon |-> 13404998],
      [lat |-> 48137000, lon |-> 11575000] }

\* the key of the first two stations, and a key no station has
KeyA == <<5252000, 1340500>>
KeyOther == <<5000000, 800000>>

Radii == {100, 200}
RefreshDays == {-1, 0, 1}
DelaysMs == {0, 250}

CafeTags == { <<"amenity", "cafe">>, <<"name", "Cafe X">> }
ChemistTags == { <<"amenity", "pharmacy">>, <<"shop", "chemist">> }

\* a response body with a cafe and a pharmacy, the pharmacy listed twice
GoodBody ==
    BodyObject("list", << Element("node", 1, CafeTags, "Cafe X", 40),
                          Element("way", 7, ChemistTags, "", 95),
                          Element("way", 7, ChemistTags, "", 95) >>)

\* what one live lookup meets: the outcome of each of its requests, and the
\* body of the response it gets
RunLookups ==
    { [resps |-> <<200, 200, 200, 200>>, body |-> GoodBody],
      [resps |-> <<200, 200, 200, 200>>, body |-> BodyNotJson],
      [resps |-> <<503, 503, 503, 503>>, body |-> GoodBody],
      [resps |-> <<404, 200, 200, 200>>, body |-> GoodBody] }

SampleCounts == [ZeroCounts EXCEPT !["cafe"] = 2]
SampleExamples == << build_amenity_example("cafe", "Cafe X", 12),
                     build_amenity_example("cafe", "", 60) >>

\* a stored example list that is not in the order of limit_amenity_examples
UnsortedExamples == << build_amenity_example("cafe", "", 60),
                       build_amenity_example("cafe", "Cafe X", 12) >>

\* timestamps of stored entries: this instant, exactly one day old, older, unreadable
SampleCheckedAt == {StartTime, StartTime - TicksPerDay, StartTime - TicksPerDay - 1, BadTimestamp}

\* well-formed entries for KeyA
SampleEntries ==
    { ObjectEntry(t, IntVal(100), CountsVal(SampleCounts), SampleExamples) :
        t \in SampleCheckedAt }

OtherEntry == ObjectEntry(StartTime - 1, IntVal(100), CountsVal(ZeroCounts), <<>>)

CurrentMeta == MetaObject(IntVal(AMENITY_SCHEMA_VERSION), IntVal(100), IntVal(StartTime - 1))

\* cache files written by earlier runs
WellFormedFiles ==
    { NoFile,
      ObjectFile(TRUE, CurrentMeta, TRUE, EntriesObject([k \in {KeyOther} |-> OtherEntry])),
      ObjectFile(TRUE, MetaObject(IntVal(AMENITY_SCHEMA_VERSION + 1), IntVal(100), IntVal(StartTime - 1)),
                 TRUE, EntriesObject([k \in {KeyA, KeyOther} |->
                                        IF k = KeyA THEN ObjectEntry(StartTime, IntVal(100),
                                                             CountsVal(SampleCounts), SampleExamples)
                                        ELSE OtherEntry])) }
    \cup { ObjectFile(TRUE, CurrentMeta, TRUE,
                      EntriesObject([k \in {KeyA, KeyOther} |-> IF k = KeyA THEN e ELSE OtherEntry])) :
             e \in SampleEntries }

\* each of them carried out
RunLiveLookups == { LiveLookup(l.resps, l.body) : l \in RunLookups }

\* cache files with content no run of this program writes
CorruptFiles ==
    LET withA(e) == EntriesObject([k \in {KeyA, KeyOther} |-> IF k = KeyA THEN e ELSE OtherEntry])
        good == ObjectEntry(StartTime, IntVal(100), CountsVal(SampleCounts), SampleExamples)
    IN  { NotJsonFile, NonObjectFile, TruncatedFile,
          ObjectFile(TRUE, MetaOther, TRUE, withA(good)),
          ObjectFile(FALSE, EmptyMeta, TRUE, withA(good)),
          ObjectFile(TRUE, MetaObject(Absent, Absent, Absent), TRUE, withA(good)),
          ObjectFile(TRUE, CurrentMeta, FALSE, NoEntries),
          ObjectFile(TRUE, CurrentMeta, TRUE, EntriesOther),
          ObjectFile(TRUE, CurrentMeta, TRUE, withA(FalsyEntry)),
          ObjectFile(TRUE, CurrentMeta, TRUE, withA(ScalarEntry)),
          ObjectFile(TRUE, CurrentMeta, TRUE, withA([good EXCEPT !.radius_m = OtherVal])),
          ObjectFile(TRUE, CurrentMeta, TRUE, withA([good EXCEPT !.radius_m = Absent])),
          ObjectFile(TRUE, CurrentMeta, TRUE, withA([good EXCEPT !.checked_at = BadTimestamp])),
          ObjectFile(TRUE, CurrentMeta, TRUE, withA([good EXCEPT !.counts = OtherVal])),
          ObjectFile(TRUE, CurrentMeta, TRUE, withA([good EXCEPT !.counts = Absent])),
          ObjectFile(TRUE, CurrentMeta, TRUE, withA([good EXCEPT !.examples = UnsortedExamples])) }

NoStep == [branch |-> "none", key |-> KeyOther, requests |-> 0, resps |-> <<>>,
           sleeps |-> <<>>, body |-> NoBody, delay_sleep |-> 0]

(***************************************************************************)
(* The run                                                                 *)
(***************************************************************************)
\* enrich_with_amenities_overpass called on its own
\* no run has preceded this one
NoPrevious == [ran |-> FALSE, rows |-> <<>>, deferred |-> 0, radius_m |-> 0, elapsed |-> 0]

EnrichIdle ==
    /\ amenity_backend = "overpass"
    /\ osm_pbf = "missing"
    /\ osmium_available = FALSE
    /\ download_osm_pbf = FALSE
    /\ backend = "overpass"

\* the local backend before it has read anything
LocalIdle ==
    /\ df = <<>>
    /\ extract = <<>>
    /\ station_cells = {}
    /\ points = <<>>

NoLookup == [raised |-> FALSE, counts |-> ZeroCounts, examples |-> <<>>]

\* before any call of request_with_retries
NoCall == [outcome |-> "none", requests |-> 0, sleeps |-> <<>>]

\* no call of request_with_retries on its own
RetryIdle ==
    /\ responses = <<>>
    /\ http_result = NoCall
    /\ calls = 0

\* no call of limit_amenity_examples on its own
LimitIdle ==
    /\ example_list = <<>>
    /\ limited = <<>>

\* no call of lookup_amenities on its own
LookupIdle ==
    /\ payload = <<>>
    /\ lookup_result = NoLookup
    /\ RetryIdle
    /\ LimitIdle

InitWith(files) ==
    /\ previous = NoPrevious
    /\ pc = "init"
    /\ disk \in files
    /\ disk_loaded = disk
    /\ radius_m \in Radii
    /\ query_budget \in 0..MaxBudget
    /\ refresh_days \in RefreshDays
    /\ force_refresh \in BOOLEAN
    /\ overpass_delay_ms \in DelaysMs
    /\ now = StartTime
    /\ cache = FreshCache
    /\ entries = NoEntries
    /\ queries_used = 0
    /\ cache_hits = 0
    /\ cache_misses = 0
    /\ deferred = 0
    /\ lookup_errors = 0
    /\ rows = <<>>
    /\ http_requests = 0
    /\ last = NoStep
    /\ writes = 0
    /\ EnrichIdle
    /\ LocalIdle
    /\ LookupIdle

Init == InitWith(WellFormedFiles)

params == <<radius_m, query_budget, refresh_days, force_refresh, overpass_delay_ms, now>>
counters == <<queries_used, cache_hits, cache_misses, deferred, lookup_errors>>
remotevars == <<disk, disk_loaded, params, cache, entries, counters, rows, http_requests,
                last, writes>>

\* an uncaught exception ends the run
Abort ==
    /\ pc' = "aborted"
    /\ UNCHANGED <<previous, disk, disk_loaded, params, cache, entries, counters, rows,
                   http_requests, last, writes, enrichvars, localvars, lookupvars>>

\* lines 1142-1152: load the cache, fix `now`, zero the statistics
LoadCache ==
    /\ pc = "init"
    /\ LET loaded == load_amenity_cache(disk)
       IN  IF loaded.raised THEN Abort
           ELSE /\ pc' = "loop"
                /\ cache' = loaded.data
                /\ entries' = loaded.data.entries
                /\ UNCHANGED <<previous, disk, disk_loaded, params, counters, rows, http_requests,
                               last, writes, enrichvars, localvars, lookupvars>>

\* the file content json.dumps(cache) describes
FileOf(c) == ObjectFile(TRUE, c.meta, TRUE, c.entries)

LoopFileWriteThrough ==
    /\ disk' = FileOf([cache EXCEPT !.entries = entries'])
    /\ writes' = writes + 1

\* lines 1197-1263: the loop body touches no file
LoopFileEffect == UNCHANGED <<disk, writes>>

\* lines 1197-1263: the loop body for the next row of df, a live lookup
\* going as one of `lives`
LoopBody(row, live) ==
    LET step == StationStep(row, live)
    IN  IF step.raised THEN Abort
        ELSE /\ entries' = step.entries
             /\ queries_used' = queries_used + step.queries
             /\ cache_hits' = cache_hits + step.hits
             /\ cache_misses' = cache_misses + step.misses
             /\ deferred' = deferred + step.deferred
             /\ lookup_errors' = lookup_errors + step.errors
             /\ rows' = Append(rows, ResultRow(row, step))
             /\ http_requests' = http_requests + step.requests
             /\ last' = [branch |-> step.source, key |-> CacheKey(row),
                         requests |-> step.requests, resps |-> step.resps,
                         sleeps |-> step.sleeps, body |-> step.body,
                         delay_sleep |-> step.delay_sleep]
             /\ LoopFileEffect
             /\ UNCHANGED <<previous, pc, disk_loaded, params, cache, enrichvars, localvars,
                            lookupvars>>

\* the loop body for a next row of df taken from StationRows
ProcessStationWith(lives) ==
    /\ pc = "loop"
    /\ Len(rows) < MaxStations
    /\ \E row \in StationRows, live \in lives : LoopBody(row, live)

ProcessStation == ProcessStationWith(RunLiveLookups)

\* a variant that returns without writing the file
PersistSkipped ==
    /\ pc = "loop"
    /\ cache' = [meta |-> MetaObject(IntVal(AMENITY_SCHEMA_VERSION), IntVal(radius_m), IntVal(now)),
                 entries |-> entries]
    /\ pc' = "done"
    /\ UNCHANGED <<previous, disk, writes, disk_loaded, params, entries, counters, rows,
                   http_requests, last, enrichvars, localvars, lookupvars>>

\* lines 1268-1286: after the last row, rewrite cache["meta"] and
\* cache["entries"], write the file, return df and the statistics
Persist ==
    /\ pc = "loop"
    /\ cache' = [meta |-> MetaObject(IntVal(AMENITY_SCHEMA_VERSION), IntVal(radius_m), IntVal(now)),
                 entries |-> entries]
    /\ disk' = FileOf(cache')
    /\ writes' = writes + 1
    /\ pc' = "done"
    /\ UNCHANGED <<previous, disk_loaded, params, entries, counters, rows, http_requests, last,
                   enrichvars, localvars, lookupvars>>

\* the process is terminated inside cache_path.write_text: open(path, "w")
\* has emptied the file and the text is not or not wholly written, or the
\* text is written and the function has not returned
InterruptedWrite ==
    /\ pc = "loop"
    /\ disk' \in { TruncatedFile,
                   FileOf([meta |-> MetaObject(IntVal(AMENITY_SCHEMA_VERSION),
                                               IntVal(radius_m), IntVal(now)),
                           entries |-> entries]) }
    /\ writes' = writes + 1
    /\ pc' = "interrupted"
    /\ cache' = FreshCache
    /\ entries' = NoEntries
    /\ queries_used' = 0
    /\ cache_hits' = 0
    /\ cache_misses' = 0
    /\ deferred' = 0
    /\ lookup_errors' = 0
    /\ rows' = <<>>
    /\ last' = NoStep
    /\ UNCHANGED <<previous, disk_loaded, params, http_requests, enrichvars, localvars, lookupvars>>

\* the process is terminated from outside, at any other point; its memory is
\* gone, the file stays
Interrupt ==
    /\ pc \in {"init", "loop"}
    /\ pc' = "interrupted"
    /\ cache' = FreshCache
    /\ entries' = NoEntries
    /\ queries_used' = 0
    /\ cache_hits' = 0
    /\ cache_misses' = 0
    /\ deferred' = 0
    /\ lookup_errors' = 0
    /\ rows' = <<>>
    /\ last' = NoStep
    /\ UNCHANGED <<previous, disk, disk_loaded, params, http_requests, writes, enrichvars,
                   localvars, lookupvars>>

Next ==
    \/ LoadCache
    \/ ProcessStation
    \/ Persist
    \/ InterruptedWrite
    \/ Interrupt

Spec == Init /\ [][Next]_vars

\* the run started on a cache file of arbitrary content
InitCorrupt == InitWith(CorruptFiles)
SpecCorrupt == InitCorrupt /\ [][Next]_vars

\* cache files of another schema version (a newer one, an older one, a
\* version that is a string) or without one (no "schema_version", no "meta"),
\* whose entries would be fresh and of the run's radius
StaleSchemaFiles ==
    LET ents == EntriesObject([k \in {KeyA, KeyOther} |->
                    IF k = KeyA THEN ObjectEntry(StartTime - 1, IntVal(100),
                                                 CountsVal(SampleCounts), SampleExamples)
                    ELSE OtherEntry])
    IN  { ObjectFile(TRUE, MetaObject(v, IntVal(100), IntVal(StartTime - 1)), TRUE, ents) :
            v \in {IntVal(AMENITY_SCHEMA_VERSION + 1), IntVal(AMENITY_SCHEMA_VERSION - 1),
                   OtherVal, Absent} }
        \cup { ObjectFile(FALSE, EmptyMeta, TRUE, ents) }

\* the run started on such a file, with the radius of its entries
InitSchema ==
    /\ InitWith(StaleSchemaFiles)
    /\ radius_m = 100
    /\ force_refresh = FALSE

SpecSchema == InitSchema /\ [][Next]_vars

\* response bodies of every shape: the well-formed one; no JSON; a JSON value
\* that is no object; "elements" null or a number; "elements" a string or an
\* object; a list holding a number before a cafe
ShapedBodies ==
    { GoodBody, BodyNotJson, BodyNonObject,
      BodyObject("noniterable", <<>>),
      BodyObject("other", <<>>),
      BodyObject("list", << [Element("node", 2, CafeTags, "Cafe X", 10) EXCEPT !.isdict = FALSE],
                            Element("node", 1, CafeTags, "Cafe X", 40) >>) }

\* lookups whose first request is answered with status 200 and such a body
ShapedLiveLookups == { LiveLookup(<<200, 200, 200, 200>>, b) : b \in ShapedBodies }

\* the run with an empty cache, every lookup answered with one of these bodies
InitShapes ==
    /\ InitWith({NoFile})
    /\ radius_m = 100
    /\ force_refresh = FALSE
    /\ overpass_delay_ms = 0

ProcessShaped == ProcessStationWith(ShapedLiveLookups)

NextShapes ==
    \/ LoadCache
    \/ ProcessShaped
    \/ Persist
    \/ InterruptedWrite
    \/ Interrupt

SpecShapes == InitShapes /\ [][NextShapes]_vars

(***************************************************************************)
(* The local extract backend.  Its stations and the points of the extract  *)
(* lie on one meridian: the longitude indices of all their cells coincide, *)
(* a cell is named by its latitude index, and the haversine distance of    *)
(* two of them is EARTH_RADIUS_M times their latitude difference in        *)
(* radians.  Latitudes are whole numbers of 1/UnitsPerDegree degree, a     *)
(* unit in which the steps of both grids and radius_m / 111_320 degrees    *)
(* are whole numbers.                                                      *)
(***************************************************************************)
\* the 111_320.0 metres per degree of radius_deltas_deg and of fine_lat_step
MetresPerDegree == 111320
UnitsPerDegree == 50 * MetresPerDegree
\* EARTH_RADIUS_M * pi / 180 / UnitsPerDegree, in micrometres
MicroMetresPerUnit == 19978

\* coarse_lat_step = 0.02 degree
coarse_lat_step == UnitsPerDegree \div 50
\* the 0.0005 degree floor of fine_lat_step
MinFineStep == UnitsPerDegree \div 2000

Abs(x) == IF x < 0 THEN -x ELSE x
Max(a, b) == IF a >= b THEN a ELSE b
\* math.ceil(a / b) for b > 0
CeilDiv(a, b) == (a + b - 1) \div b

\* radius_deltas_deg(radius_m, lat)[0]: lat_delta = radius_m / 111_320.0
lat_delta(radius) == (radius * UnitsPerDegree) \div MetresPerDegree

\* fine_lat_step = max(0.0005, radius_m / 111_320.0)
fine_lat_step(radius) == Max(MinFineStep, (radius * UnitsPerDegree) \div MetresPerDegree)

\* cell_key(lat, lon, lat_step, lon_step)[0]: floor(lat / lat_step)
cell_key(lat, lat_step) == lat \div lat_step

\* haversine_distance_m of two points of one meridian, in micrometres
haversine_distance_m(lat1, lat2) == Abs(lat2 - lat1) * MicroMetresPerUnit

\* int(round(distance_m)) of a distance given in micrometres
RoundMetres(um) == (um + 500000) \div 1000000

\* build_coarse_station_cells(df, radius_m, lat_step): the cells between
\* the cell of lat - lat_delta and the cell of lat + lat_delta, per station
build_coarse_station_cells(stations, radius, lat_step) ==
    UNION { cell_key(stations[i].lat - lat_delta(radius), lat_step)
                .. cell_key(stations[i].lat + lat_delta(radius), lat_step) :
            i \in 1..Len(stations) }

\* an object of the extract: its kind and id, its tags and name, and the
\* locations it carries (a node its own, a way those of its nodes), each
\* valid or not
Geometry(kind, id, tags, name, locs) ==
    [kind |-> kind, id |-> id, tags |-> tags, name |-> name, locs |-> locs]
Loc(lat) == [valid |-> TRUE, lat |-> lat]
NoLoc == [valid |-> FALSE, lat |-> 0]

AmenityPoint(lat, categories, name) ==
    [lat |-> lat, categories |-> categories, name |-> name]

RECURSIVE SumLat(_)
SumLat(locs) ==
    IF locs = <<>> THEN 0
    ELSE (IF locs[1].valid THEN locs[1].lat ELSE 0) + SumLat(Tail(locs))

\* the coordinate the collector takes for an object: the node's location,
\* or the mean of the valid node locations of a way (sum_lat / count)
Centroid(g) ==
    LET valid == SelectSeq(g.locs, LAMBDA l : l.valid)
    IN  IF valid = <<>> THEN [found |-> FALSE, lat |-> 0]
        ELSE [found |-> TRUE, lat |-> SumLat(valid) \div Len(valid)]

\* AmenityCollector.node and .way with _append_if_relevant: collector.points
\* after the callback for g; AmenityCollector.relation appends nothing
Collect(pts, g, cells) ==
    LET categories == classify_tags(g.tags)
        at == Centroid(g)
    IN  IF g.kind = "relation" THEN pts
        ELSE IF ~at.found THEN pts
        ELSE IF categories = <<>> THEN pts
        ELSE IF cell_key(at.lat, coarse_lat_step) \notin cells THEN pts
        ELSE Append(pts, AmenityPoint(at.lat, categories, g.name))

\* lat_reach = max(1, ceil(lat_delta / fine_lat_step) + 1)
lat_reach(radius) == Max(1, CeilDiv(lat_delta(radius), fine_lat_step(radius)) + 1)

\* lines 1409-1412: the indices the fine grid holds in the cells at most
\* lat_reach away from the station's cell
candidate_indices(pts, lat, radius) ==
    LET step == fine_lat_step(radius)
        base == cell_key(lat, step)
    IN  { i \in 1..Len(pts) :
            cell_key(pts[i].lat, step) \in (base - lat_reach(radius))..(base + lat_reach(radius)) }

ExactFilterOff(distance, radius) == TRUE

\* lines 1419-1420: `if distance_m > radius_m: continue`
ExactFilter(distance, radius) == ~(distance > radius * 1000000)

\* lines 1421-1433: the counts and examples one point adds, category by category
RECURSIVE CategoryLoop(_, _, _, _, _)
CategoryLoop(point, distance, j, counts, examples) ==
    IF j > Len(point.categories) THEN [counts |-> counts, examples |-> examples]
    ELSE CategoryLoop(point, distance, j + 1,
             [counts EXCEPT ![point.categories[j]] = @ + 1],
             Append(examples, build_amenity_example(point.categories[j], point.name,
                                                    RoundMetres(distance))))

\* lines 1414-1433: the loop over the candidates, in the order of their
\* indices, from point i on
RECURSIVE CandidateLoop(_, _, _, _, _, _, _)
CandidateLoop(pts, candidates, lat, radius, i, counts, examples) ==
    IF i > Len(pts) THEN [counts |-> counts, examples |-> examples]
    ELSE LET distance == haversine_distance_m(lat, pts[i].lat)
         IN  IF i \notin candidates \/ ~ExactFilter(distance, radius)
                 THEN CandidateLoop(pts, candidates, lat, radius, i + 1, counts, examples)
                 ELSE LET added == CategoryLoop(pts[i], distance, 1, counts, examples)
                      IN  CandidateLoop(pts, candidates, lat, radius, i + 1,
                                        added.counts, added.examples)

\* lines 1400-1441: the columns the local backend writes into a station's row
LocalRow(row, pts, radius) ==
    LET done == CandidateLoop(pts, candidate_indices(pts, row.lat, radius), row.lat,
                              radius, 1, ZeroCounts, <<>>)
    IN  [lat |-> row.lat,
         counts |-> done.counts,
         amenities_total |-> SumCounts(done.counts, amenity_columns),
         amenities_source |-> "osm-pbf",
         amenity_examples |-> limit_amenity_examples(done.examples)]

\* the sequences over S of length at most n
RECURSIVE SeqsUpTo(_, _)
SeqsUpTo(S, n) ==
    IF n = 0 THEN { <<>> }
    ELSE LET shorter == SeqsUpTo(S, n - 1)
         IN  shorter \cup { Append(q, x) : q \in shorter, x \in S }

MaxExtract == 2

\* a latitude on the border of two coarse cells (52.52 degrees)
BoundaryLat == 2626 * coarse_lat_step

\* stations: one whose lat + lat_delta(100) ends 3 units short of the
\* border, one nearer to it, one far from the others in the cell beyond
LocalStations ==
    { [lat |-> BoundaryLat - 5003], [lat |-> BoundaryLat - 2000], [lat |-> BoundaryLat + 90000] }

\* the station lists df holds, in ascending order of latitude
StationLists ==
    { q \in SeqsUpTo(LocalStations, MaxStations) :
        \A i \in 1..Len(q) : \A j \in 1..Len(q) : i < j => q[i].lat < q[j].lat }

\* nodes: a cafe with a bakery just beyond the border; a restaurant; a cafe
\* without valid location; a node without amenity tags
NodeSamples ==
    { Geometry("node", 1, CafeTags \cup { <<"shop", "bakery">> }, "Cafe X", <<Loc(BoundaryLat + 2)>>),
      Geometry("node", 2, { <<"amenity", "restaurant">> }, "Aldi", <<Loc(BoundaryLat + 3100)>>),
      Geometry("node", 3, CafeTags, "Cafe X", <<NoLoc>>),
      Geometry("node", 4, { <<"highway", "bus_stop">> }, "", <<Loc(BoundaryLat - 1000)>>) }

\* ways: one that satisfies both selectors of pharmacy, with two located
\* nodes; one without located node
WaySamples ==
    { Geometry("way", 7, ChemistTags, "",
               <<Loc(BoundaryLat - 1500), NoLoc, Loc(BoundaryLat - 500)>>),
      Geometry("way", 8, CafeTags, "", <<NoLoc>>) }

RelationSamples == { Geometry("relation", 9, CafeTags, "", <<>>) }

EnrichRadii == {50, 100}

\* a cache file of an earlier run with a fresh entry for KeyA, or none
EnrichFiles ==
    { NoFile,
      ObjectFile(TRUE, CurrentMeta, TRUE,
                 EntriesObject([k \in {KeyA, KeyOther} |->
                                  IF k = KeyA THEN ObjectEntry(StartTime, IntVal(100),
                                                       CountsVal(SampleCounts), SampleExamples)
                                  ELSE OtherEntry])) }

resolve_ignoring_parser(requested, exists, has_osmium) ==
    IF requested = "auto"
        THEN IF exists THEN "osm-pbf" ELSE "overpass"
        ELSE requested

\* resolve_amenity_backend(requested, osm_pbf_path), given whether the path
\* exists and whether importlib finds osmium
resolve_amenity_backend(requested, exists, has_osmium) ==
    IF requested = "auto"
        THEN IF exists
                 THEN IF ~has_osmium THEN "overpass" ELSE "osm-pbf"
                 ELSE "overpass"
        ELSE requested

\* enrich_with_amenities is called
InitEnrich ==
    /\ previous = NoPrevious
    /\ pc = "start"
    /\ amenity_backend \in {"auto", "overpass", "osm-pbf"}
    /\ osm_pbf \in {"missing", "empty", "present"}
    /\ osmium_available \in BOOLEAN
    /\ download_osm_pbf \in BOOLEAN
    /\ backend = ""
    /\ disk \in EnrichFiles
    /\ disk_loaded = disk
    /\ radius_m \in EnrichRadii
    /\ query_budget = 1
    /\ refresh_days = 1
    /\ force_refresh = FALSE
    /\ overpass_delay_ms = 0
    /\ now = StartTime
    /\ cache = FreshCache
    /\ entries = NoEntries
    /\ queries_used = 0
    /\ cache_hits = 0
    /\ cache_misses = 0
    /\ deferred = 0
    /\ lookup_errors = 0
    /\ rows = <<>>
    /\ http_requests = 0
    /\ last = NoStep
    /\ writes = 0
    /\ LocalIdle
    /\ LookupIdle

\* lines 1483-1508: resolve the backend; the remote backend starts at "init",
\* the local one at "local"
ResolveBackend ==
    /\ pc = "start"
    /\ backend' = resolve_amenity_backend(amenity_backend, osm_pbf # "missing", osmium_available)
    /\ pc' = IF backend' = "osm-pbf" THEN "local" ELSE "init"
    /\ UNCHANGED <<previous, remotevars, amenity_backend, osm_pbf, osmium_available, download_osm_pbf,
                   localvars, lookupvars>>

\* lines 1300-1321: the result columns are reset; an empty df is returned at once
LocalStart ==
    /\ pc = "local"
    /\ \E d \in StationLists :
          /\ df' = d
          /\ pc' = IF d = <<>> THEN "done" ELSE "ensure"
    /\ UNCHANGED <<previous, remotevars, enrichvars, extract, station_cells, points, lookupvars>>

\* a variant of the test below that goes on to fetch the extract in any case
MissingExtractTolerated(download_if_missing) == FALSE

\* lines 790-795: without a usable file, RuntimeError unless the download is
\* permitted
MissingExtractFatal(download_if_missing) == ~download_if_missing

\* ensure_osm_pbf_file: a file that exists with a size above 0 is taken as
\* it is; otherwise a RuntimeError without --download-osm-pbf, or the
\* download, which puts the file in place or fails with an exception
EnsureExtract ==
    /\ pc = "ensure"
    /\ IF osm_pbf = "present"
           THEN pc' = "cells" /\ UNCHANGED osm_pbf
       ELSE IF MissingExtractFatal(download_osm_pbf)
           THEN pc' = "aborted" /\ UNCHANGED osm_pbf
       ELSE \/ pc' = "cells" /\ osm_pbf' = "present"
            \/ pc' = "aborted" /\ UNCHANGED osm_pbf
    /\ UNCHANGED <<previous, remotevars, amenity_backend, osmium_available, download_osm_pbf, backend,
                   localvars, lookupvars>>

\* lines 1331-1338 and 912-919: the coarse cells of the stations, then
\* collect_amenity_points_from_pbf imports osmium or raises RuntimeError
BuildCoarseCells ==
    /\ pc = "cells"
    /\ station_cells' = build_coarse_station_cells(df, radius_m, coarse_lat_step)
    /\ pc' = IF osmium_available THEN "scan" ELSE "aborted"
    /\ UNCHANGED <<previous, remotevars, enrichvars, df, extract, points, lookupvars>>

\* apply_file delivers the next object of the extract, g, to its callback
Deliver(g) ==
    /\ extract' = Append(extract, g)
    /\ points' = Collect(points, g, station_cells)
    /\ UNCHANGED <<previous, pc, remotevars, enrichvars, df, station_cells, lookupvars>>

\* AmenityCollector.node
NodeCallback ==
    /\ pc = "scan"
    /\ Len(extract) < MaxExtract
    /\ \E g \in NodeSamples : Deliver(g)

\* AmenityCollector.way
WayCallback ==
    /\ pc = "scan"
    /\ Len(extract) < MaxExtract
    /\ \E g \in WaySamples : Deliver(g)

\* AmenityCollector.relation
RelationCallback ==
    /\ pc = "scan"
    /\ Len(extract) < MaxExtract
    /\ \E g \in RelationSamples : Deliver(g)

\* apply_file returns: the extract is read to its end
EndScan ==
    /\ pc = "scan"
    /\ pc' = "query"
    /\ UNCHANGED <<previous, remotevars, enrichvars, localvars, lookupvars>>

localrest == <<disk, disk_loaded, params, cache, entries, counters, http_requests, last, writes>>

\* lines 1400-1442: the loop body for the next row of df
LocalStation ==
    /\ pc = "query"
    /\ Len(rows) < Len(df)
    /\ rows' = Append(rows, LocalRow(df[Len(rows) + 1], points, radius_m))
    /\ UNCHANGED <<previous, pc, localrest, enrichvars, localvars, lookupvars>>

\* lines 1444-1463: after the last row, return df and the statistics
LocalReturn ==
    /\ pc = "query"
    /\ Len(rows) = Len(df)
    /\ pc' = "done"
    /\ UNCHANGED <<previous, remotevars, enrichvars, localvars, lookupvars>>

NextLocal ==
    \/ LocalStart
    \/ EnsureExtract
    \/ BuildCoarseCells
    \/ NodeCallback
    \/ WayCallback
    \/ RelationCallback
    \/ EndScan
    \/ LocalStation
    \/ LocalReturn

NextEnrich == ResolveBackend \/ Next \/ NextLocal

SpecEnrich == InitEnrich /\ [][NextEnrich]_vars

(***************************************************************************)
(* lookup_amenities on its own                                             *)
(***************************************************************************)
MaxElements == 3

\* elements of a response: a named cafe; a way that satisfies both selectors
\* of pharmacy; a node with the way's id and two categories; the cafe's
\* (type, id) again with other tags; an item that is no object; an element
\* whose id is no integer
ElementSamples ==
    { Element("node", 1, CafeTags, "Cafe X", 40),
      Element("way", 7, ChemistTags, "", 95),
      Element("node", 7, { <<"amenity", "pharmacy">>, <<"shop", "supermarket">> }, "Aldi", 95),
      Element("node", 1, { <<"amenity", "cafe">>, <<"tourism", "hotel">> }, "", NoDistance),
      [Element("node", 2, CafeTags, "Cafe X", 10) EXCEPT !.isdict = FALSE],
      [Element("way", 3, CafeTags, "Cafe X", 10) EXCEPT !.id = OtherVal] }

InitLookup ==
    /\ previous = NoPrevious
    /\ pc = "lookup"
    /\ payload \in SeqsUpTo(ElementSamples, MaxElements)
    /\ lookup_result = NoLookup
    /\ RetryIdle
    /\ LimitIdle
    /\ disk = NoFile
    /\ disk_loaded = NoFile
    /\ radius_m = 100
    /\ query_budget = 1
    /\ refresh_days = 0
    /\ force_refresh = FALSE
    /\ overpass_delay_ms = 0
    /\ now = StartTime
    /\ cache = FreshCache
    /\ entries = NoEntries
    /\ queries_used = 0
    /\ cache_hits = 0
    /\ cache_misses = 0
    /\ deferred = 0
    /\ lookup_errors = 0
    /\ rows = <<>>
    /\ http_requests = 0
    /\ last = NoStep
    /\ writes = 0
    /\ EnrichIdle
    /\ LocalIdle

\* lookup_amenities(...) whose request is answered at once with the element
\* list `payload`
Lookup ==
    /\ pc = "lookup"
    /\ lookup_result' = lookup_amenities(request_with_retries(<<200>>),
                                         BodyObject("list", payload))
    /\ pc' = "looked"
    /\ UNCHANGED <<previous, remotevars, enrichvars, localvars, payload, retryvars, limitvars>>

SpecLookup == InitLookup /\ [][Lookup]_vars

(***************************************************************************)
(* Two runs of the remote backend in a row                                 *)
(***************************************************************************)
\* cache files the first run finds: none, or one whose entry for KeyA is
\* a tick old, a day old or older
RerunFiles ==
    { NoFile }
    \cup { ObjectFile(TRUE, CurrentMeta, TRUE,
                      EntriesObject([k \in {KeyA} |->
                          ObjectEntry(t, IntVal(100), CountsVal(SampleCounts), SampleExamples)])) :
             t \in {StartTime - 1, StartTime - TicksPerDay, StartTime - TicksPerDay - 1} }

\* a lookup that succeeds and one that fails after four requests
RerunLiveLookups ==
    { LiveLookup(<<200, 200, 200, 200>>, GoodBody),
      LiveLookup(<<503, 503, 503, 503>>, GoodBody) }

InitRerun ==
    /\ InitWith(RerunFiles)
    /\ overpass_delay_ms = 0

\* the loop body of the first run
FirstRunStation ==
    /\ ~previous.ran
    /\ ProcessStationWith(RerunLiveLookups)

\* the loop body of the second run: the next row of the same df
SecondRunStation ==
    /\ previous.ran
    /\ pc = "loop"
    /\ Len(rows) < Len(previous.rows)
    /\ \E live \in RerunLiveLookups :
          LoopBody([lat |-> previous.rows[Len(rows) + 1].lat,
                    lon |-> previous.rows[Len(rows) + 1].lon], live)

\* the end of a run; the second run has processed every row of df
RunEnd ==
    /\ previous.ran => Len(rows) = Len(previous.rows)
    /\ Persist

\* the program is started again for the same stations, `elapsed` ticks
\* after the first run started: a new process with its own parameters
Rerun ==
    /\ pc = "done"
    /\ ~previous.ran
    /\ \E elapsed \in 0..TicksPerDay :
          /\ previous' = [ran |-> TRUE, rows |-> rows, deferred |-> deferred,
                          radius_m |-> radius_m, elapsed |-> elapsed]
          /\ now' = now + elapsed
    /\ radius_m' \in Radii
    /\ force_refresh' \in BOOLEAN
    /\ pc' = "init"
    /\ disk_loaded' = disk
    /\ cache' = FreshCache
    /\ entries' = NoEntries
    /\ queries_used' = 0
    /\ cache_hits' = 0
    /\ cache_misses' = 0
    /\ deferred' = 0
    /\ lookup_errors' = 0
    /\ rows' = <<>>
    /\ http_requests' = 0
    /\ last' = NoStep
    /\ writes' = 0
    /\ UNCHANGED <<disk, query_budget, refresh_days, overpass_delay_ms, enrichvars,
                   localvars, lookupvars>>

NextRerun ==
    \/ LoadCache
    \/ FirstRunStation
    \/ SecondRunStation
    \/ RunEnd
    \/ Rerun

SpecRerun == InitRerun /\ [][NextRerun]_vars

(***************************************************************************)
(* Both backends on the same geometries                                    *)
(***************************************************************************)
MaxGeometries == 4

\* tags that satisfy four rules, one per tag key
RichTags ==
    { <<"amenity", "cafe">>, <<"shop", "chemist">>, <<"tourism", "hotel">>, <<"leisure", "park">> }

\* four nodes of four categories each and a plain cafe, all within 50 m of
\* the station at BoundaryLat - 2000
RichGeometries ==
    { Geometry("node", 10 + n, RichTags, "Cafe X", <<Loc(BoundaryLat - 2000 + 300 * n)>>) :
        n \in 1..4 }
    \cup { Geometry("node", 1, CafeTags, "Cafe X", <<Loc(BoundaryLat - 2500)>>) }

\* collector.points after apply_file has delivered gs
RECURSIVE CollectAll(_, _)
CollectAll(gs, cells) ==
    IF gs = <<>> THEN <<>>
    ELSE Collect(CollectAll(SubSeq(gs, 1, Len(gs) - 1), cells), gs[Len(gs)], cells)

\* the local backend at its station loop, the extract read; no response yet
InitExamples ==
    /\ previous = NoPrevious
    /\ pc = "query"
    /\ amenity_backend = "osm-pbf"
    /\ osm_pbf = "present"
    /\ osmium_available = TRUE
    /\ download_osm_pbf = FALSE
    /\ backend = "osm-pbf"
    /\ df = << [lat |-> BoundaryLat - 2000] >>
    /\ radius_m = 100
    /\ extract \in SeqsUpTo(RichGeometries, MaxGeometries)
    /\ station_cells = build_coarse_station_cells(df, radius_m, coarse_lat_step)
    /\ points = CollectAll(extract, station_cells)
    /\ payload = <<>>
    /\ lookup_result = NoLookup
    /\ RetryIdle
    /\ LimitIdle
    /\ disk = NoFile
    /\ disk_loaded = NoFile
    /\ query_budget = 1
    /\ refresh_days = 1
    /\ force_refresh = FALSE
    /\ overpass_delay_ms = 0
    /\ now = StartTime
    /\ cache = FreshCache
    /\ entries = NoEntries
    /\ queries_used = 0
    /\ cache_hits = 0
    /\ cache_misses = 0
    /\ deferred = 0
    /\ lookup_errors = 0
    /\ rows = <<>>
    /\ http_requests = 0
    /\ last = NoStep
    /\ writes = 0

\* the response that holds the objects gs, in their order, for the station
\* at lat: each element with the distance of its coordinate
ElementsOf(gs, lat) ==
    [k \in 1..Len(gs) |->
        Element(gs[k].kind, gs[k].id, gs[k].tags, gs[k].name,
                RoundMetres(haversine_distance_m(lat, Centroid(gs[k]).lat)))]

\* lookup_amenities for the station of df, answered at once with the
\* geometries of the extract
LookupDelivered ==
    /\ pc = "query"
    /\ payload = <<>>
    /\ extract # <<>>
    /\ payload' = ElementsOf(extract, df[1].lat)
    /\ lookup_result' = lookup_amenities(request_with_retries(<<200>>),
                                         BodyObject("list", payload'))
    /\ UNCHANGED <<previous, pc, remotevars, enrichvars, localvars, retryvars, limitvars>>

NextExamples == LocalStation \/ LookupDelivered

SpecExamples == InitExamples /\ [][NextExamples]_vars

(***************************************************************************)
(* limit_amenity_examples on its own                                       *)
(***************************************************************************)
MaxExamples == 3

\* an antipodal distance, in metres: beyond the rank of a missing distance
FarDistance == 15000000

\* examples as build_amenity_example makes them: two of equal key that
\* differ in the case of the name, one without distance, one far away
ExampleSamples ==
    { build_amenity_example("cafe", "Cafe X", 12),
      build_amenity_example("cafe", "", 60),
      build_amenity_example("supermarket", "Aldi", 60),
      build_amenity_example("supermarket", "ALDI", 60),
      build_amenity_example("bakery", "", NoDistance),
      build_amenity_example("cafe", "", FarDistance) }

\* a list one short of the limit, in descending order of distance
LongPrefix ==
    [i \in 1..(AMENITY_EXAMPLES_PER_STATION - 1) |-> build_amenity_example("park", "", 100 - i)]

InitLimit ==
    /\ previous = NoPrevious
    /\ pc = "limit"
    /\ \E head \in {<<>>, LongPrefix} :
          example_list \in { head \o rest : rest \in SeqsUpTo(ExampleSamples, MaxExamples) }
    /\ limited = <<>>
    /\ RetryIdle
    /\ payload = <<>>
    /\ lookup_result = NoLookup
    /\ disk = NoFile
    /\ disk_loaded = NoFile
    /\ radius_m = 100
    /\ query_budget = 1
    /\ refresh_days = 0
    /\ force_refresh = FALSE
    /\ overpass_delay_ms = 0
    /\ now = StartTime
    /\ cache = FreshCache
    /\ entries = NoEntries
    /\ queries_used = 0
    /\ cache_hits = 0
    /\ cache_misses = 0
    /\ deferred = 0
    /\ lookup_errors = 0
    /\ rows = <<>>
    /\ http_requests = 0
    /\ last = NoStep
    /\ writes = 0
    /\ EnrichIdle
    /\ LocalIdle

\* limit_amenity_examples(example_list)
LimitExamples ==
    /\ pc = "limit"
    /\ limited' = limit_amenity_examples(example_list)
    /\ pc' = "limited"
    /\ UNCHANGED <<previous, remotevars, enrichvars, localvars, payload, lookup_result, retryvars,
                   example_list>>

SpecLimit == InitLimit /\ [][LimitExamples]_vars

(***************************************************************************)
(* request_with_retries on its own                                         *)
(***************************************************************************)
MaxCalls == 2

\* what one request can meet: a network error, the lowest status, 200, a
\* redirect status, a permanent failure, a retryable failure, the highest
\* status
Statuses == {NetworkError, 100, 200, 302, 404, 503, 599}

\* what the requests of one call would meet, one after the other
ResponseSeqs == [1..MaxAttempts -> Statuses]

InitRetry ==
    /\ previous = NoPrevious
    /\ pc = "retry"
    /\ RetryIdle
    /\ payload = <<>>
    /\ lookup_result = NoLookup
    /\ LimitIdle
    /\ disk = NoFile
    /\ disk_loaded = NoFile
    /\ radius_m = 100
    /\ query_budget = 1
    /\ refresh_days = 0
    /\ force_refresh = FALSE
    /\ overpass_delay_ms = 0
    /\ now = StartTime
    /\ cache = FreshCache
    /\ entries = NoEntries
    /\ queries_used = 0
    /\ cache_hits = 0
    /\ cache_misses = 0
    /\ deferred = 0
    /\ lookup_errors = 0
    /\ rows = <<>>
    /\ http_requests = 0
    /\ last = NoStep
    /\ writes = 0
    /\ EnrichIdle
    /\ LocalIdle

\* one call of request_with_retries whose requests meet `resps`
CallWithRetries ==
    /\ pc = "retry"
    /\ calls < MaxCalls
    /\ \E resps \in ResponseSeqs :
          /\ responses' = resps
          /\ http_result' = request_with_retries(resps)
    /\ calls' = calls + 1
    /\ UNCHANGED <<previous, pc, remotevars, enrichvars, localvars, payload, lookup_result, limitvars>>

SpecRetry == InitRetry /\ [][CallWithRetries]_vars

(***************************************************************************)
(* Properties                                                              *)
(***************************************************************************)
\* a step in which the loop body ran to its end for one more station
StationProcessed == Len(rows') = Len(rows) + 1
NewRow == rows'[Len(rows')]

LookupAttempts == { i \in 1..Len(rows) : rows[i].amenities_source \in {"live", "error"} }

\* C1 as stated: a station is served from the cache iff force-refresh is off,
\* the entry's radius is the requested one and now - checked_at is strictly
\* less than refresh_days; otherwise it is a miss
ReuseLawStrict(entry) ==
    /\ ~force_refresh
    /\ entry.kind = "object"
    /\ EntryRadius(entry) = radius_m
    /\ now - ParseCheckedAt(entry) < refresh_days * TicksPerDay
C1_ReuseLawStrict ==
    [][StationProcessed =>
         (NewRow.amenities_source = "cache" <=> ReuseLawStrict(EntriesGet(entries, NewRow.key)))]_vars

\* C1 amended: a station is served from the cache (source=cache, no request,
\* a cache hit) iff force-refresh is off, the entry's radius is the requested
\* one and now - checked_at is at most refresh_days; otherwise it is a miss
ReuseLaw(entry) ==
    /\ ~force_refresh
    /\ entry.kind = "object"
    /\ EntryRadius(entry) = radius_m
    /\ now - ParseCheckedAt(entry) <= refresh_days * TicksPerDay
C1_ReuseLaw ==
    [][StationProcessed =>
         IF ReuseLaw(EntriesGet(entries, NewRow.key))
             THEN /\ NewRow.amenities_source = "cache"
                  /\ http_requests' = http_requests
                  /\ cache_hits' = cache_hits + 1
                  /\ cache_misses' = cache_misses
             ELSE /\ NewRow.amenities_source \in {"deferred", "live", "error"}
                  /\ cache_hits' = cache_hits
                  /\ cache_misses' = cache_misses + 1]_vars
C1_Witness ==
    /\ last.branch = "cache"
    /\ refresh_days = 1
    /\ EntriesGet(entries, last.key).checked_at = now - TicksPerDay

\* C2: the stations for which a live lookup was attempted are queries_used
\* many, and never more than the query budget
C2_BudgetNeverExceeded ==
    /\ Cardinality(LookupAttempts) = queries_used
    /\ queries_used <= query_budget
C2_Witness ==
    /\ query_budget = 1
    /\ queries_used = 1
    /\ deferred = 1
    /\ lookup_errors = 1

\* C3: a station without usable cache entry that meets a used-up budget is
\* recorded as deferred with zero counts and no examples, deferred grows by
\* one and no request is sent
C3_DeferredWhenBudgetUsedUp ==
    [][(/\ StationProcessed
        /\ ~CacheProbe(entries, NewRow.key).use_cache
        /\ queries_used >= query_budget)
       => /\ NewRow.amenities_source = "deferred"
          /\ NewRow.counts = ZeroCounts
          /\ NewRow.amenities_total = 0
          /\ NewRow.amenity_examples = <<>>
          /\ deferred' = deferred + 1
          /\ http_requests' = http_requests
          /\ queries_used' = queries_used]_vars
C3_Witness ==
    /\ last.branch = "deferred"
    /\ query_budget = 0
    /\ deferred = 2

\* C4: a live lookup whose every request meets a retryable status sends
\* exactly 4 requests and fails: zero counts, source=error, lookup_errors
\* grows by one, the loop goes on
AllRetryable(resps) ==
    /\ resps # <<>>
    /\ \A i \in 1..Len(resps) : resps[i] \in RetryableStatus
C4_RetryableExhaustion ==
    [][(StationProcessed /\ AllRetryable(last'.resps))
       => /\ last'.requests = 4
          /\ http_requests' = http_requests + 4
          /\ NewRow.amenities_source = "error"
          /\ NewRow.counts = ZeroCounts
          /\ NewRow.amenities_total = 0
          /\ lookup_errors' = lookup_errors + 1
          /\ pc' = "loop"]_vars
C4_Witness ==
    /\ Len(rows) = 2
    /\ rows[1].amenities_source = "error"
    /\ lookup_errors = 1
    /\ http_requests = 4
    /\ rows[2].amenities_source = "deferred"

\* C5: a response with an error status outside {429,500,502,503,504} ends
\* the call at once: no sleep follows it and no further request
PermanentStatus(status) ==
    status # NetworkError /\ status >= 400 /\ status \notin RetryableStatus
C5_PermanentFailureNotRetried ==
    \A k \in 1..Len(last.resps) :
        (/\ PermanentStatus(last.resps[k])
         /\ \A j \in 1..(k - 1) : last.resps[j] \in RetryableStatus \cup {NetworkError})
        => /\ last.requests = k
           /\ Len(last.sleeps) = k - 1
           /\ last.branch = "error"

\* C6: a station whose live lookup ends with source=error leaves the
\* in-memory cache map unchanged
C6_ErrorLeavesCacheUnchanged ==
    [][(StationProcessed /\ NewRow.amenities_source = "error") => entries' = entries]_vars

\* C7: a failed live lookup takes one unit of the budget, counts as a lookup
\* error and not as deferred, sends no request beyond its own retries, and the
\* loop goes on with the rows recorded so far left as they are
C7_FailedLookupAccounting ==
    [][(StationProcessed /\ NewRow.amenities_source = "error")
       => /\ queries_used' = queries_used + 1
          /\ lookup_errors' = lookup_errors + 1
          /\ deferred' = deferred
          /\ cache_hits' = cache_hits
          /\ http_requests' - http_requests = last'.requests
          /\ last'.requests \in 1..MaxAttempts
          /\ SubSeq(rows', 1, Len(rows)) = rows
          /\ pc' = "loop"]_vars
C7_Witness ==
    /\ Len(rows) = 2
    /\ rows[1].amenities_source = "error"
    /\ rows[2].amenities_source = "live"
    /\ queries_used = 2
    /\ lookup_errors = 1
    /\ deferred = 0

\* C8: whatever the cache file holds, the run is not ended by an exception
C8_CorruptionNeverFatal == pc # "aborted"

\* C9: the file is written once, by the run that has processed its last
\* station; until then the file is as it was loaded
C9_PersistOnceAtEnd ==
    /\ writes <= 1
    /\ pc = "done" => writes = 1
    /\ pc \in {"init", "loop"} => writes = 0
    /\ writes = 0 => disk = disk_loaded
C9_Witness ==
    /\ pc = "done"
    /\ Len(rows) = 2
    /\ queries_used = 2
    /\ writes = 1
    /\ disk # disk_loaded

\* C10: at every moment the file holds the whole previous content or the
\* whole new content
WholeNewContent ==
    /\ disk.kind = "object"
    /\ disk.has_meta /\ disk.has_entries
    /\ disk.meta = MetaObject(IntVal(AMENITY_SCHEMA_VERSION), IntVal(radius_m), IntVal(now))
C10_AtomicPersist == disk = disk_loaded \/ WholeNewContent

\* the keys of the cache the run loaded, when the file has the current schema
\* version
LoadedKeys ==
    IF /\ disk_loaded.kind = "object"
       /\ disk_loaded.has_meta /\ disk_loaded.has_entries
       /\ disk_loaded.meta.kind = "object"
       /\ disk_loaded.meta.schema_version = IntVal(AMENITY_SCHEMA_VERSION)
       /\ disk_loaded.entries.kind = "object"
        THEN DOMAIN disk_loaded.entries.map
        ELSE {}

\* C11: no run deletes a cache entry: every key of a loaded cache of the
\* current schema version stays in the in-memory map during the loop and is
\* in the file the run writes
C11_EntriesNeverDeleted ==
    /\ pc = "loop" => LoadedKeys \subseteq DOMAIN entries.map
    /\ pc = "done" => /\ disk.kind = "object"
                      /\ disk.entries.kind = "object"
                      /\ LoadedKeys \subseteq DOMAIN disk.entries.map
C11_Witness ==
    /\ pc = "done"
    /\ LoadedKeys = {KeyA, KeyOther}
    /\ force_refresh
    /\ queries_used = 2
    /\ Cardinality(DOMAIN disk.entries.map) = 3
    /\ disk.entries.map[KeyA] # disk_loaded.entries.map[KeyA]
    /\ disk.entries.map[KeyOther] = OtherEntry

\* rows[j] is served from the entry the live lookup of the earlier rows[i]
\* wrote: source=cache with the same counts and examples
ServedFromLive(i, j) ==
    /\ rows[j].amenities_source = "cache"
    /\ rows[j].counts = rows[i].counts
    /\ rows[j].amenities_total = rows[i].amenities_total
    /\ rows[j].amenity_examples = rows[i].amenity_examples
    /\ j = Len(rows) => (last.branch = "cache" /\ last.requests = 0)

SameKeyAfterLive ==
    { p \in (1..Len(rows)) \X (1..Len(rows)) :
        /\ p[1] < p[2]
        /\ rows[p[1]].amenities_source = "live"
        /\ <<Round5(rows[p[2]].lat), Round5(rows[p[2]].lon)>>
               = <<Round5(rows[p[1]].lat), Round5(rows[p[1]].lon)>> }

\* C12 as stated: with force-refresh off, a station that follows a successful
\* live lookup at the same 5-decimal key is served from the entry just
\* written, without request and without a unit of the budget
C12_SameKeyServedStated ==
    ~force_refresh =>
        /\ \A p \in SameKeyAfterLive : ServedFromLive(p[1], p[2])
        /\ Cardinality(LookupAttempts) = queries_used

\* C12 amended: the same, for force-refresh off and refresh_days >= 0
C12_SameKeyServedFromCache ==
    (~force_refresh /\ refresh_days >= 0) =>
        /\ \A p \in SameKeyAfterLive : ServedFromLive(p[1], p[2])
        /\ Cardinality(LookupAttempts) = queries_used
C12_Witness ==
    /\ ~force_refresh
    /\ refresh_days = 0
    /\ Len(rows) = 2
    /\ rows[1].lat # rows[2].lat
    /\ rows[1].amenities_source = "live"
    /\ rows[1].amenities_total > 0
    /\ SameKeyAfterLive = {<<1, 2>>}
    /\ rows[2].amenities_source = "cache"
    /\ queries_used = 1
    /\ http_requests = 1

\* the elements of the list that pass the type, id and tags tests and whose
\* tags satisfy a selector of category cat
Satisfying(items, cat) ==
    { i \in 1..Len(items) :
        /\ items[i].isdict
        /\ items[i].type \in {"node", "way", "relation"}
        /\ items[i].id.t = "int"
        /\ items[i].hastags
        /\ \E r \in 1..Len(AMENITY_RULES) :
              AMENITY_RULES[r].key = cat /\ RuleMatches(AMENITY_RULES[r], items[i].tags) }

\* C14: lookup_amenities counts an element (kind, id) at most once per
\* category, however many selectors of the category its tags satisfy and
\* however often the (kind, id) is listed
C14_RemoteDedup ==
    pc = "looked" =>
        \A cat \in amenity_columns :
            lookup_result.counts[cat] <=
                Cardinality({ <<payload[i].type, payload[i].id.v>> : i \in Satisfying(payload, cat) })
C14_Witness ==
    /\ pc = "looked"
    /\ Len(payload) = 3
    /\ payload[1] = payload[3]
    /\ payload[1].type = "way"
    /\ payload[1].tags = ChemistTags
    /\ payload[2].type = "node" /\ payload[2].id.v = 7 /\ payload[2].isdict
    /\ lookup_result.counts["pharmacy"] = 2
    /\ Len(lookup_result.examples) = 3

\* the sum of the per-category counts, rule by rule
RECURSIVE SumByRule(_, _)
SumByRule(counts, i) ==
    IF i > Len(AMENITY_RULES) THEN 0
    ELSE counts[AMENITY_RULES[i].key] + SumByRule(counts, i + 1)

\* C13: in every station result of either backend, amenities_total is the
\* sum of the station's per-category counts over all categories
C13_TotalIsSumOfCounts ==
    \A i \in 1..Len(rows) : rows[i].amenities_total = SumByRule(rows[i].counts, 1)
C13_Witness ==
    /\ pc = "done"
    /\ backend = "osm-pbf"
    /\ Len(rows) = 2
    /\ rows[1].amenities_total = 0
    /\ rows[2].counts["cafe"] = 1
    /\ rows[2].counts["bakery"] = 1
    /\ rows[2].counts["pharmacy"] = 1
    /\ rows[2].amenities_total = 3

\* tags satisfy a selector of category cat
SatisfiesCategory(tags, cat) ==
    \E r \in 1..Len(AMENITY_RULES) :
        AMENITY_RULES[r].key = cat /\ RuleMatches(AMENITY_RULES[r], tags)

\* the (kind, id) of the delivered nodes and ways of category cat that have
\* a location
Located(cat) ==
    { k \in 1..Len(extract) :
        /\ extract[k].kind \in {"node", "way"}
        /\ Centroid(extract[k]).found
        /\ SatisfiesCategory(extract[k].tags, cat) }
GeometryId(g) == <<g.kind, g.id>>

\* C15: in a result of the local backend no category's count exceeds the
\* number of distinct geometries (kind, id) of that category the extract
\* has delivered: a geometry adds at most one to a category's count
C15_LocalDedup ==
    backend = "osm-pbf" =>
        \A i \in 1..Len(rows) : \A cat \in amenity_columns :
            rows[i].counts[cat] <= Cardinality({ GeometryId(extract[k]) : k \in Located(cat) })

\* the delivered geometries of some category whose point lies within
\* radius_m of the station at lat, by exact haversine distance
WithinRadius(lat) ==
    { k \in 1..Len(extract) :
        /\ extract[k].kind \in {"node", "way"}
        /\ Centroid(extract[k]).found
        /\ classify_tags(extract[k].tags) # <<>>
        /\ haversine_distance_m(lat, Centroid(extract[k]).lat) <= radius_m * 1000000 }

\* C17: every point of a retained category within radius_m of a station
\* passes the coarse-cell filter, is among the station's fine-grid
\* candidates and is counted in each of its categories
C17_NoFalseNegatives ==
    (backend = "osm-pbf" /\ pc \in {"scan", "query", "done"}) =>
        /\ \A s \in 1..Len(df) : \A k \in WithinRadius(df[s].lat) :
              /\ cell_key(Centroid(extract[k]).lat, coarse_lat_step) \in station_cells
              /\ \E c \in candidate_indices(points, df[s].lat, radius_m) :
                    points[c].lat = Centroid(extract[k]).lat
        /\ \A i \in 1..Len(rows) : \A cat \in amenity_columns :
              rows[i].counts[cat] >=
                  Cardinality({ GeometryId(extract[k]) : k \in WithinRadius(rows[i].lat) \cap Located(cat) })

\* the collected points of category cat within radius_m of the station at lat
PointsWithin(lat, cat) ==
    { k \in 1..Len(points) :
        /\ \E j \in 1..Len(points[k].categories) : points[k].categories[j] = cat
        /\ haversine_distance_m(lat, points[k].lat) <= radius_m * 1000000 }

\* C18: in a result of the local backend every count and every example
\* comes from a point within radius_m of the station by exact haversine
\* distance; candidates farther away add nothing
C18_NoFalsePositives ==
    backend = "osm-pbf" =>
        \A i \in 1..Len(rows) :
            /\ \A cat \in amenity_columns :
                  rows[i].counts[cat] <= Cardinality(PointsWithin(rows[i].lat, cat))
            /\ \A e \in 1..Len(rows[i].amenity_examples) :
                  \E k \in PointsWithin(rows[i].lat, rows[i].amenity_examples[e].category) :
                      /\ rows[i].amenity_examples[e].distance_m
                            = RoundMetres(haversine_distance_m(rows[i].lat, points[k].lat))
                      /\ rows[i].amenity_examples[e].name = points[k].name
C18_Witness ==
    /\ pc = "done"
    /\ backend = "osm-pbf"
    /\ radius_m = 100
    /\ Len(rows) = 1
    /\ Len(points) = 2
    /\ candidate_indices(points, rows[1].lat, radius_m) = {1, 2}
    /\ haversine_distance_m(rows[1].lat, points[2].lat) > radius_m * 1000000
    /\ points[2].categories = <<"restaurant">>
    /\ rows[1].counts["restaurant"] = 0
    /\ rows[1].amenities_total = 2
    /\ Len(rows[1].amenity_examples) = 2

\* C20: an explicit backend is returned as requested; in automatic mode the
\* local backend is chosen iff the extract file exists and osmium can be
\* imported, otherwise the remote one
C20_BackendResolution ==
    pc # "start" =>
        /\ amenity_backend \in {"overpass", "osm-pbf"} => backend = amenity_backend
        /\ amenity_backend = "auto" =>
              /\ backend \in {"overpass", "osm-pbf"}
              /\ backend = "osm-pbf" <=> (osm_pbf # "missing" /\ osmium_available)
        /\ backend = "osm-pbf" => pc \notin {"init", "loop"}
        /\ backend = "overpass" => pc \in {"init", "loop", "done", "aborted", "interrupted"}
C20_Witness ==
    /\ amenity_backend = "auto"
    /\ osm_pbf = "empty"
    /\ ~osmium_available
    /\ backend = "overpass"
    /\ pc = "done"
    /\ Len(rows) = 2

\* the examples are in the order of limit_amenity_examples
InOrder(examples) ==
    \A j \in 1..(Len(examples) - 1) : ~KeyLess(sort_key(examples[j + 1]), sort_key(examples[j]))

ExtractUnobtainable ==
    backend = "osm-pbf" /\ osm_pbf = "missing" /\ ~download_osm_pbf

\* C21 as stated: in that case every step the local backend takes, from its
\* start to ensure_osm_pbf_file, leads towards the RuntimeError and none
\* returns a result, whatever the station list
C21_MissingExtractAlwaysFatal ==
    [][(ExtractUnobtainable /\ pc \in {"local", "ensure"})
          => /\ pc' \in {"ensure", "aborted"}
             /\ pc = "ensure" => pc' = "aborted"
             /\ rows' = <<>>]_vars

\* C21 amended: the same for every station list that is not empty (an empty
\* one is returned at line 1321, before the extract file is looked at)
C21_MissingExtractFatal ==
    [][(ExtractUnobtainable /\ pc \in {"local", "ensure"} /\ df' # <<>>)
          => /\ pc' \in {"ensure", "aborted"}
             /\ pc = "ensure" => pc' = "aborted"
             /\ rows' = <<>>]_vars

C21_Witness ==
    /\ backend = "osm-pbf" /\ osm_pbf = "missing" /\ ~download_osm_pbf
    /\ Len(df) = MaxStations
    /\ pc = "aborted"

\* a body that is not a JSON object whose "elements" is a list of objects
\* (a body without "elements" reads as the empty list)
UnexpectedShape(body) ==
    \/ body.kind \in {"notjson", "nonobject"}
    \/ body.kind = "object" /\ body.elements \in {"noniterable", "other"}
    \/ body.kind = "object" /\ body.elements = "list"
          /\ \E i \in 1..Len(body.items) : ~body.items[i].isdict

\* C22: a station whose lookup received a response of unexpected shape is
\* recorded with source error, zero counts and no examples
C22_MalformedResponseIsError ==
    (last.branch \in {"live", "error"} /\ UnexpectedShape(last.body))
        => /\ last.branch = "error"
           /\ rows[Len(rows)].counts = ZeroCounts
           /\ rows[Len(rows)].amenity_examples = <<>>

\* C23: a call of request_with_retries sends at most 4 requests, whatever its
\* requests meet; the first response with a status below 400 that it receives
\* ends the call at once: it is returned, no further request is sent and
\* nothing is slept after it (one sleep lies between any two requests)
C23_AtMostFourRequests ==
    calls > 0 =>
        /\ http_result.requests <= 4
        /\ \A k \in 1..Len(responses) :
              (http_result.requests >= k /\ responses[k] # NetworkError /\ responses[k] < 400)
                  => /\ http_result.outcome = "return"
                     /\ http_result.requests = k
                     /\ Len(http_result.sleeps) = k - 1

C23_Witness ==
    /\ calls > 0
    /\ responses = [k \in 1..MaxAttempts |-> IF k = 3 THEN 302 ELSE IF k = 1 THEN NetworkError ELSE 503]
    /\ http_result.requests = 3

\* the schedule 1.2 * 1.8^(k-1) s for k = 1, 2, 3, in units of 0.1 ms
BackoffSchedule == <<12000, 21600, 38880>>

\* C26: within one call the k-th sleep lasts BackoffSchedule[k], whether the
\* attempts before it met retryable statuses, other failures or network
\* errors; a call sleeps at most 3 times and never after its last request;
\* every call, also one that follows another, starts again at 1.2 s
C26_BackoffSchedule ==
    calls > 0 =>
        /\ Len(http_result.sleeps) <= 3
        /\ Len(http_result.sleeps) < http_result.requests
        /\ \A k \in 1..Len(http_result.sleeps) : http_result.sleeps[k] = BackoffSchedule[k]

\* a second call that sleeps three times, two of them after network errors
C26_Witness ==
    /\ calls = 2
    /\ responses = [k \in 1..MaxAttempts |-> IF k = 2 THEN 503 ELSE NetworkError]
    /\ Len(http_result.sleeps) = 3

\* the file the run loaded is an object whose meta.schema_version is the
\* current one
SchemaCurrent ==
    /\ disk_loaded.kind = "object"
    /\ disk_loaded.has_meta
    /\ disk_loaded.meta.kind = "object"
    /\ disk_loaded.meta.schema_version = IntVal(AMENITY_SCHEMA_VERSION)

\* the keys of the stations this run has attempted a lookup for
LookedUpKeys == { rows[i].key : i \in LookupAttempts }

\* C24: when the loaded file has another schema version or none, none of its
\* entries is used or kept: the in-memory map holds only keys this run looked
\* up, a station is served from the cache only after a lookup of this run at
\* its key, and the file written at the end holds only entries this run wrote
C24_SchemaMismatchEmptiesCache ==
    (~SchemaCurrent /\ pc \in {"loop", "done"}) =>
        /\ DOMAIN entries.map = LookedUpKeys
        /\ \A j \in 1..Len(rows) :
              rows[j].amenities_source = "cache"
                  => \E i \in LookupAttempts : i < j /\ rows[i].key = rows[j].key
        /\ pc = "done" =>
              /\ DOMAIN disk.entries.map = LookedUpKeys
              /\ \A k \in DOMAIN disk.entries.map : disk.entries.map[k].checked_at = now

\* a fresh entry for the first station's key was in the file, the station is
\* looked up all the same, and the file written holds that key alone
C24_Witness ==
    /\ pc = "done"
    /\ ~SchemaCurrent
    /\ KeyA \in DOMAIN disk_loaded.entries.map
    /\ refresh_days = 1
    /\ Len(rows) = 2
    /\ rows[1].key = KeyA /\ rows[1].amenities_source = "live"
    /\ rows[2].key = KeyA /\ rows[2].amenities_source = "cache"
    /\ DOMAIN disk.entries.map = {KeyA}

\* C25: in a run with a positive delay, the loop iteration of a station for
\* which a live lookup was attempted, successful or failed, ends with a sleep
\* of the configured delay, so that the sleep lies before the next station;
\* the iteration of a cache-hit or deferred station sleeps no delay
C25_InterQueryDelay ==
    overpass_delay_ms > 0 =>
        /\ last.branch \in {"live", "error"} => last.delay_sleep = overpass_delay_ms
        /\ last.branch \in {"cache", "deferred"} => last.delay_sleep = 0

\* a failed lookup followed by its delay, after a first station that slept too
C25_Witness ==
    /\ overpass_delay_ms > 0
    /\ Len(rows) = 2
    /\ rows[1].amenities_source = "live"
    /\ last.branch = "error"
    /\ last.delay_sleep = overpass_delay_ms

\* C29: after any number of stations of a remote run, cache_hits +
\* queries_used + deferred is the number of stations processed, cache_misses
\* is queries_used + deferred, and lookup_errors is at most queries_used
C29_StatisticsBalance ==
    pc \in {"loop", "done"} =>
        /\ cache_hits + queries_used + deferred = Len(rows)
        /\ cache_misses = queries_used + deferred
        /\ lookup_errors <= queries_used

\* a cache hit, then a failed lookup that uses up the budget
C29_Witness ==
    /\ pc = "loop"
    /\ Len(rows) = 2
    /\ cache_hits = 1
    /\ queries_used = 1
    /\ lookup_errors = 1

\* the number of stations whose row carries the label
Labelled(source) == Cardinality({ i \in 1..Len(rows) : rows[i].amenities_source = source })

\* C30: at the end of a remote run the stations labelled cache, deferred and
\* error are as many as cache_hits, deferred and lookup_errors, those
\* labelled live as many as queries_used - lookup_errors, and every station
\* carries one of the four labels
C30_LabelsAgreeWithStatistics ==
    pc = "done" =>
        /\ Labelled("cache") = cache_hits
        /\ Labelled("deferred") = deferred
        /\ Labelled("error") = lookup_errors
        /\ Labelled("live") = queries_used - lookup_errors
        /\ \A i \in 1..Len(rows) :
              rows[i].amenities_source \in {"cache", "deferred", "error", "live"}

\* a run that ends with one station looked up and one failed
C30_Witness ==
    /\ pc = "done"
    /\ Len(rows) = 2
    /\ Labelled("live") = 1
    /\ Labelled("error") = 1
    /\ queries_used = 2

\* the delivered objects are nodes and ways with distinct (kind, id) and a
\* known coordinate, all within radius_m of the station at lat
AllWithinRadius(lat) ==
    /\ \A k \in 1..Len(extract) :
          /\ extract[k].kind \in {"node", "way"}
          /\ Centroid(extract[k]).found
          /\ haversine_distance_m(lat, Centroid(extract[k]).lat) <= radius_m * 1000000
    /\ \A k, l \in 1..Len(extract) :
          GeometryId(extract[k]) = GeometryId(extract[l]) => k = l

\* the response that holds exactly the delivered objects, in their order,
\* for the station at lat
ResponseOf(lat) ==
    BodyObject("list",
        [k \in 1..Len(extract) |->
            Element(extract[k].kind, extract[k].id, extract[k].tags, extract[k].name,
                    RoundMetres(haversine_distance_m(lat, Centroid(extract[k]).lat)))])

\* C27: for a station all of whose delivered geometries are uniquely
\* identified, located and within the radius, the counts and the example
\* list of the local backend equal those lookup_amenities returns for the
\* response that holds exactly these geometries
C27_BackendEquivalence ==
    backend = "osm-pbf" =>
        \A i \in 1..Len(rows) :
            AllWithinRadius(rows[i].lat) =>
                LET remote == lookup_amenities(request_with_retries(<<200>>),
                                               ResponseOf(rows[i].lat))
                IN  /\ rows[i].counts = remote.counts
                    /\ rows[i].amenity_examples = remote.examples

\* the key of the claim, compared lexicographically: the distance, where a
\* missing one comes after every real one; the category; the lower-cased name
StatedKeyLess(a, b) ==
    \/ a.distance_m # NoDistance /\ (b.distance_m = NoDistance \/ a.distance_m < b.distance_m)
    \/ /\ a.distance_m = b.distance_m
       /\ \/ CategoryRank(a.category) < CategoryRank(b.category)
          \/ /\ a.category = b.category
             /\ NameRank(a.name) < NameRank(b.name)

\* the same key with a missing distance taken as 10,000,000 m
RankedKeyLess(a, b) ==
    LET rank(e) == IF e.distance_m = NoDistance THEN MissingDistanceRank ELSE e.distance_m
    IN  \/ rank(a) < rank(b)
        \/ /\ rank(a) = rank(b)
           /\ \/ CategoryRank(a.category) < CategoryRank(b.category)
              \/ /\ a.category = b.category
                 /\ NameRank(a.name) < NameRank(b.name)

\* the first min(12, n) items of `examples` in the stable order of Less: the
\* item at input position j goes to the position that counts the items of
\* smaller key and the earlier items of equal key
FirstInStableOrder(examples, Less(_, _)) ==
    LET n == Len(examples)
        place(j) == 1 + Cardinality({ k \in 1..n :
                                        \/ Less(examples[k], examples[j])
                                        \/ ~Less(examples[j], examples[k]) /\ k < j })
        m == IF n < 12 THEN n ELSE 12
    IN  [i \in 1..m |-> examples[CHOOSE j \in 1..n : place(j) = i]]

\* C28 as stated: limit_amenity_examples returns the first min(12, n) items
\* of its input in the stable order of the key (distance, a missing one
\* after every real one; category; lower-cased name)
C28_LimitStated ==
    pc = "limited" => limited = FirstInStableOrder(example_list, StatedKeyLess)

\* C28 amended: the same with a missing distance ranked as 10,000,000 m,
\* that is after every real distance below 10,000,000 m
C28_LimitRanked ==
    pc = "limited" => limited = FirstInStableOrder(example_list, RankedKeyLess)

\* a list of 14 items cut to 12: the two supermarkets of equal key stay in
\* their input order and the item without distance is cut off
C28_Witness ==
    /\ pc = "limited"
    /\ Len(example_list) = 14
    /\ example_list[12] = build_amenity_example("bakery", "", NoDistance)
    /\ example_list[13] = build_amenity_example("supermarket", "ALDI", 60)
    /\ example_list[14] = build_amenity_example("supermarket", "Aldi", 60)
    /\ Len(limited) = 12
    /\ limited[1] = example_list[13]
    /\ limited[2] = example_list[14]

\* C31: once a station of a run has been deferred, every later station of
\* the run is a cache hit or deferred: none is looked up
C31_DeferralMonotone ==
    \A i, j \in 1..Len(rows) :
        (i < j /\ rows[i].amenities_source = "deferred")
            => rows[j].amenities_source \in {"cache", "deferred"}

\* a deferred station followed by a cache hit
C31_Witness ==
    /\ Len(rows) = 2
    /\ rows[1].amenities_source = "deferred"
    /\ rows[2].amenities_source = "cache"

\* C32: the iteration of a cache-hit or deferred station leaves the
\* in-memory cache map, stale entries included, and queries_used as they
\* were and sends no request
C32_NoLookupNoSideEffect ==
    [][(StationProcessed /\ NewRow.amenities_source \in {"cache", "deferred"})
          => /\ entries' = entries
             /\ queries_used' = queries_used
             /\ http_requests' = http_requests]_vars

\* a deferred station whose stale entry is still in the map
C32_Witness ==
    /\ last.branch = "deferred"
    /\ last.key = KeyA
    /\ KeyA \in DOMAIN entries.map
    /\ entries.map[KeyA] = disk_loaded.entries.map[KeyA]
    /\ ~IsFresh(ParseCheckedAt(entries.map[KeyA]))

\* C33: a remote run sends at most 4 requests per unit of the query budget,
\* and none when the budget is 0 or no station was looked up
C33_RequestsBounded ==
    /\ http_requests <= 4 * query_budget
    /\ (pc \in {"loop", "done"} /\ LookupAttempts = {}) => http_requests = 0

\* two lookups of four requests each
C33_Witness ==
    /\ query_budget = 2
    /\ http_requests = 8
    /\ pc = "done"

\* C37: a call of request_with_retries whose requests meet network errors
\* and statuses from 100 to 599 ends by returning a response or by raising
\* the request error; it never leaves the loop for the final RuntimeError
C37_NoFallThrough ==
    (calls > 0 /\ \A k \in 1..Len(responses) :
                     responses[k] = NetworkError \/ responses[k] \in 100..599)
        => http_result.outcome \in {"return", "raise"}

\* four answers of the highest failure status: the fourth raises
C37_Witness ==
    /\ calls > 0
    /\ responses = [k \in 1..MaxAttempts |-> 599]
    /\ http_result.outcome = "raise"
    /\ http_result.requests = 4

\* C36: in automatic mode the run never ends with the RuntimeError of
\* ensure_osm_pbf_file for a missing extract: when auto has resolved to the
\* local backend, the file passes the test (exists, size above 0) without
\* the download flag
C36_AutoNeverMissingExtract ==
    (amenity_backend = "auto" /\ backend = "osm-pbf" /\ ~download_osm_pbf)
        => /\ pc \in {"ensure", "cells", "scan", "query"} => osm_pbf = "present"
           /\ pc # "aborted"

\* min(12, total)
ExpectedExamples(total) == IF total < 12 THEN total ELSE 12

\* C35: a result of the local backend and a result of a successful live
\* lookup carry min(12, amenities_total) examples: one per counted
\* (geometry, category) pair, cut to 12
C35_ExamplesMatchTotal ==
    /\ \A i \in 1..Len(rows) :
          Len(rows[i].amenity_examples) = ExpectedExamples(rows[i].amenities_total)
    /\ (payload # <<>> /\ ~lookup_result.raised) =>
          Len(lookup_result.examples)
              = ExpectedExamples(SumCounts(lookup_result.counts, amenity_columns))

\* four nodes of four categories: 16 counted on both sides, 12 examples
C35_Witness ==
    /\ Len(rows) = 1
    /\ rows[1].amenities_total = 16
    /\ Len(rows[1].amenity_examples) = 12
    /\ payload # <<>>
    /\ SumCounts(lookup_result.counts, amenity_columns) = 16
    /\ Len(lookup_result.examples) = 12

\* the second run of the claim: it follows a finished run without
\* deferred stations, has the same radius and force-refresh off, and less
\* time than the refresh window lies between the two
RerunOfClaim ==
    /\ previous.ran
    /\ previous.deferred = 0
    /\ radius_m = previous.radius_m
    /\ ~force_refresh
    /\ refresh_days >= 0
    /\ previous.elapsed < refresh_days * TicksPerDay

\* the keys the first run looked up, with or without success
LookedUpBefore ==
    { previous.rows[j].key : j \in { i \in 1..Len(previous.rows) :
                                      previous.rows[i].amenities_source \in {"live", "error"} } }

\* C34 as stated: such a second run performs no lookup and serves every
\* station from the cache
C34_RerunAllFromCache ==
    RerunOfClaim =>
        /\ queries_used = 0
        /\ \A i \in 1..Len(rows) : rows[i].amenities_source = "cache"

\* C34 amended: such a second run serves from the cache every station
\* whose key the first run looked up, so it looks up or defers only
\* stations the first run served from an entry of an earlier run
C34_RerunLookedUpFromCache ==
    RerunOfClaim =>
        /\ \A i \in 1..Len(rows) :
              rows[i].key \in LookedUpBefore => rows[i].amenities_source = "cache"
        /\ queries_used <= Cardinality({ i \in 1..Len(rows) : rows[i].key \notin LookedUpBefore })

\* a finished second run half a day later: a station looked up by the
\* first run comes from the cache, a station the first run took from a
\* day-old entry is looked up again
C34_Witness ==
    /\ RerunOfClaim
    /\ pc = "done"
    /\ Len(rows) = 2
    /\ previous.rows[1].amenities_source = "cache"
    /\ rows[1].amenities_source = "live"
    /\ previous.rows[2].amenities_source = "live"
    /\ rows[2].amenities_source = "cache"

====
